---- MODULE Spec2Model ----
(***************************************************************************)
(* EPA drinking-water compliance analysis (compliance_analysis.py).        *)
(*                                                                         *)
(* The model follows main(): load_data, fetch_water_system_info,           *)
(* validate_data_quality, detect_violations, assess_severity,              *)
(* generate_public_notifications, generate_federal_reporting and the final *)
(* json.dump of the results.                                               *)
(*                                                                         *)
(* Text is modelled as a sequence of one-character strings, so that        *)
(* float(text) and text == 'Present' are computed, not assumed.  Numbers   *)
(* are fixed-point integers in units of 1/Scale.  A Python dict is the     *)
(* sequence of its items in insertion order.                               *)
(***************************************************************************)
EXTENDS Integers, Sequences, FiniteSets, TLC

\* ------------------------------------------------------------------ bounds
\* Largest number of rows a generated laboratory table has.
MaxSamples == 2

\* Fixed-point unit: the code rounds exceedance factors to 2 decimals.
Scale == 100

\* ------------------------------------------------------------- text values
\* The texts other than numbers that a cell or a table entry holds: the
\* Result texts of the laboratory file, the tier name ACUTE, a location.
S ==
  [Present |-> <<"P", "r", "e", "s", "e", "n", "t">>,
   Absent |-> <<"A", "b", "s", "e", "n", "t">>,
   NA |-> <<"N", "/", "A">>,
   ND |-> <<"N", "D">>,
   nan |-> <<"n", "a", "n">>,
   empty |-> << >>,
   ACUTE |-> <<"A", "C", "U", "T", "E">>,
   Well |-> <<"W", "e", "l", "l">>]

Digits == {"0", "1", "2", "3", "4", "5", "6", "7", "8", "9"}

DigitVal(c) ==
  CASE c = "0" -> 0 [] c = "1" -> 1 [] c = "2" -> 2 [] c = "3" -> 3
    [] c = "4" -> 4 [] c = "5" -> 5 [] c = "6" -> 6 [] c = "7" -> 7
    [] c = "8" -> 8 [] c = "9" -> 9

\* A cell value: a text (Python str) or a float.  A finite float is held as
\* a number of 1/Scale units; it stands for the double nearest to v/Scale.
Str(text) == [kind |-> "str", text |-> text, nan |-> FALSE, v |-> 0]

Float(v) == [kind |-> "float", text |-> << >>, nan |-> FALSE, v |-> v]

\* The float NaN that pandas stores for a missing cell.
NaN == [kind |-> "float", text |-> << >>, nan |-> TRUE, v |-> 0]

IsFloat(x) == x.kind = "float"

\* pandas.read_csv turns these cell texts into NaN (its default na_values).
NAValues == {S.NA, S.nan, S.empty}

\* One cell of the Result column as read_csv delivers it: the text of the
\* cell, or NaN for a missing value.
read_csv_cell(text) == IF text \in NAValues THEN NaN ELSE Str(text)

\* -------------------------------------------------------------- float(text)
RECURSIVE DigitsValue(_)
\* Value of a sequence of decimal digits.
DigitsValue(s) ==
  IF s = << >> THEN 0
  ELSE 10 * DigitsValue(SubSeq(s, 1, Len(s) - 1)) + DigitVal(s[Len(s)])

AllDigits(s) == \A i \in 1..Len(s) : s[i] \in Digits

\* Position of the decimal point, 0 when there is none.
DotPos(s) ==
  IF \E i \in 1..Len(s) : s[i] = "."
  THEN CHOOSE i \in 1..Len(s) : s[i] = "." /\ \A j \in 1..(i - 1) : s[j] # "."
  ELSE 0

Pow10(n) == CASE n = 0 -> 1 [] n = 1 -> 10 [] n = 2 -> 100

\* Unsigned decimal literal with at most two fraction digits.
IsDecimal(s) ==
  LET d == DotPos(s) IN
  IF d = 0 THEN Len(s) > 0 /\ AllDigits(s)
  ELSE /\ Len(s) > 1
       /\ AllDigits(SubSeq(s, 1, d - 1))
       /\ AllDigits(SubSeq(s, d + 1, Len(s)))
       /\ Len(s) - d <= 2

DecimalValue(s) ==
  LET d == DotPos(s) IN
  IF d = 0 THEN Scale * DigitsValue(s)
  ELSE LET frac == SubSeq(s, d + 1, Len(s)) IN
       Scale * DigitsValue(SubSeq(s, 1, d - 1))
         + DigitsValue(frac) * Pow10(2 - Len(frac))

\* float(x) of Python: a float is returned as it is; a text is parsed as
\* [sign] decimal or "nan"; any other text raises ValueError (ok = FALSE).
\* (Exponents, "inf" and surrounding blanks are not among the texts drawn.)
float(x) ==
  IF IsFloat(x) THEN [ok |-> TRUE, val |-> x]
  ELSE LET s == x.text IN
       IF s = S.nan THEN [ok |-> TRUE, val |-> NaN]
       ELSE IF Len(s) > 0 /\ s[1] = "-" /\ IsDecimal(Tail(s))
            THEN [ok |-> TRUE, val |-> Float(0 - DecimalValue(Tail(s)))]
       ELSE IF IsDecimal(s) THEN [ok |-> TRUE, val |-> Float(DecimalValue(s))]
       ELSE [ok |-> FALSE, val |-> NaN]

\* a >= b in place of a > b
FloatGE(a, b) == ~a.nan /\ a.v >= b * Scale

\* a > b for a float a and an integer b (a comparison with NaN is False).
FloatGT(a, b) == ~a.nan /\ a.v > b * Scale

\* ------------------------------------------------- double rounding direction
RECURSIVE PowMod(_, _, _)
\* (b ^ k) mod m
PowMod(b, k, m) == IF k = 0 THEN 1 % m ELSE (b * PowMod(b, k - 1, m)) % m

RECURSIVE Log2Floor(_, _)
\* Largest e >= 0 with d * 2^e <= n, for n >= d > 0.
Log2Floor(n, d) == IF 2 * d > n THEN 0 ELSE 1 + Log2Floor(n, 2 * d)

\* Sign of (double nearest to n/Scale) - n/Scale for n >= Scale: a double
\* has a 53-bit significand, so with 2^e <= n/Scale < 2^(e+1) the value is
\* rounded at the bit of weight 2^(e-52); the discarded fraction is
\* ((n * 2^(52-e)) mod Scale) / Scale of that unit.
FloatErrSign(n) ==
  LET e   == Log2Floor(n, Scale)
      rem == ((n % Scale) * PowMod(2, 52 - e, Scale)) % Scale
  IN  IF rem = 0 THEN 0 ELSE IF 2 * rem > Scale THEN 1 ELSE 0 - 1

\* round(result_value / mcl, 2) for a finite result_value of n/Scale and an
\* integer mcl > 0, in 1/Scale units.  Off a tie the double quotient rounds
\* as the exact quotient does.  On a decimal tie (2 * rem = mcl) the double
\* quotient lies on the side of the input's representation error (the
\* division by a power of two is exact), and an exactly representable tie
\* goes to the even hundredth.  Of the limits in mcls only 4 is a power of
\* two; 15 has no tie, and 1300 has one only at results 13.00 * (k + 1/2),
\* which the generated tables do not contain.
\* the quotient cut off after two decimals
Truncate2(n, mcl) == n \div mcl

Round2(n, mcl) ==
  LET k0  == n \div mcl
      rem == n % mcl
      s   == FloatErrSign(n)
  IN  IF 2 * rem < mcl THEN k0
      ELSE IF 2 * rem > mcl THEN k0 + 1
      ELSE IF s > 0 THEN k0 + 1
      ELSE IF s < 0 THEN k0
      ELSE IF k0 % 2 = 0 THEN k0 ELSE k0 + 1

\* --------------------------------------------------- EPAComplianceAnalyzer
\* The parameter names of the tables and of the laboratory files.
P ==
  [Ecoli |-> <<"E", ".", "c", "o", "l", "i">>,
   Lead |-> <<"L", "e", "a", "d">>,
   Copper |-> <<"C", "o", "p", "p", "e", "r">>,
   PFOA |-> <<"P", "F", "O", "A">>,
   Nitrate |-> <<"N", "i", "t", "r", "a", "t", "e">>]

\* self.mcls: the regulatory limit table, a dict as its items.
mcls ==
  << <<P.Ecoli, 0>>, <<P.Lead, 15>>, <<P.Copper, 1300>>, <<P.PFOA, 4>> >>

\* every parameter in the 30-day tier
violation_tiers_all_tier2 ==
  << <<P.Ecoli, "Tier 2">>, <<P.Lead, "Tier 2">>, <<P.Copper, "Tier 2">>,
     <<P.PFOA, "Tier 2">> >>

\* self.violation_tiers
violation_tiers ==
  << <<P.Ecoli, "Tier 1">>, <<P.Lead, "Tier 2">>, <<P.Copper, "Tier 2">>,
     <<P.PFOA, "Tier 2">> >>

\* self.notification_requirements
notification_requirements ==
  << <<"Tier 1", [timeframe |-> "24 hours",
                  media |-> <<"Public Notice", "Direct Contact", "Media Alert">>]>>,
     <<"Tier 2", [timeframe |-> "30 days",
                  media |-> <<"Public Notice", "Newspaper">>]>>,
     <<"Tier 3", [timeframe |-> "1 year",
                  media |-> <<"Annual Report">>]>> >>

\* dict helpers: a dict is the sequence of its <<key, value>> items.
Keys(d) == {d[i][1] : i \in 1..Len(d)}

HasKey(d, k) == \E i \in 1..Len(d) : d[i][1] = k

\* d[k]
Get(d, k) == d[CHOOSE i \in 1..Len(d) : d[i][1] = k][2]

None == [kind |-> "None"]

\* d.get(k)
DictGet(d, k) == IF HasKey(d, k) THEN [kind |-> "value", value |-> Get(d, k)] ELSE None

\* ------------------------------------------------------------ the DataFrame
\* The water system identifiers of the runs: the system of the examples,
\* the same in lower case (which the pattern of the validation rejects),
\* another system, and a system no source knows.
PWSID ==
  [Clinton |-> <<"O", "H", "7", "7", "0", "0", "0", "0", "1">>,
   Lower |-> <<"o", "h", "7", "7", "0", "0", "0", "0", "1">>,
   Other |-> <<"O", "H", "1", "2", "3", "4", "5", "6", "7">>,
   Unknown |-> <<"O", "H", "0", "0", "0", "0", "0", "0", "0">>]

\* A DataFrame is the sequence of its rows.  Sample_Location is the site
\* number of the row; Collection_Time is present in every generated row.
Row(parameter, text, i) ==
  [PWSID |-> PWSID.Clinton, Parameter |-> parameter,
   Result |-> read_csv_cell(text), Sample_Location |-> i,
   Collection_Time |-> "08:30", Lab_Cert_Number |-> "OH-LAB-001"]

\* The columns of the laboratory file.
LabColumns ==
  {"PWSID", "Sample_Date", "Parameter", "Result", "Units", "MCL",
   "Lab_Cert_Number", "Sample_Location", "Collection_Time"}

\* A DataFrame: its column names and its rows.
DataFrame(columns, rows) == [columns |-> columns, rows |-> rows]

\* pd.DataFrame()
EmptyDataFrame == DataFrame({}, << >>)

\* df.empty: an axis of length 0
empty(df) == df.columns = {} \/ df.rows = << >>

RECURSIVE unique(_)
\* Series.unique(): the distinct values in order of first appearance.
unique(col) ==
  IF col = << >> THEN << >>
  ELSE LET init == unique(SubSeq(col, 1, Len(col) - 1))
           x    == col[Len(col)]
       IN  IF \E i \in 1..Len(init) : init[i] = x THEN init ELSE Append(init, x)

Column_Parameter(df) == [i \in 1..Len(df) |-> df[i].Parameter]

RECURSIVE SelectRows(_, _)
\* df[df['Parameter'] == parameter]
SelectRows(df, parameter) ==
  IF df = << >> THEN << >>
  ELSE LET rest == SelectRows(Tail(df), parameter) IN
       IF Head(df).Parameter = parameter THEN <<Head(df)>> \o rest ELSE rest

\* ------------------------------------------------------- detect_violations
\* What the body of the row loop does with one row: it appends a finding,
\* appends nothing, or leaves the function with an exception.
\* a finding at twice the limit or more escalated to Tier 1
FindingEscalated(row, result, mcl, factor, parameter) ==
  [sample_location |-> row.Sample_Location, result |-> result, mcl |-> mcl,
   exceedance_factor |-> factor, collection_time |-> row.Collection_Time,
   tier |-> IF factor.kind = "float" /\ factor.v >= 2 * Scale
            THEN "Tier 1" ELSE Get(violation_tiers, parameter)]

Finding(row, result, mcl, factor, parameter) ==
  [sample_location |-> row.Sample_Location, result |-> result, mcl |-> mcl,
   exceedance_factor |-> factor, collection_time |-> row.Collection_Time,
   tier |-> Get(violation_tiers, parameter)]

NoFinding == [kind |-> "none", raised |-> "none"]

\* any result other than 'Absent' taken as a detection
IsNotAbsent(result) == result # Str(S.Absent)

\* row['Result'] == 'Present'
IsPresent(result) == result = Str(S.Present)

\* the ValueError of float() left uncaught
ValueErrorPropagates == [kind |-> "raise", raised |-> "ValueError"]

\* except ValueError: continue
OnValueError == NoFinding

\* the parameter entered into the dict whatever its list holds
KeepAlways(param_violations) == TRUE

\* if param_violations: violations[parameter] = param_violations
KeepParameter(param_violations) == param_violations # << >>

\* no parameter taken as a presence test
PresenceBranchNever(parameter) == FALSE

\* if parameter == 'E.coli': the presence test instead of the comparison
PresenceBranch(parameter) == parameter = P.Ecoli

RowOutcome(parameter, row, mcl) ==
  IF PresenceBranch(parameter)
  THEN IF IsPresent(row.Result)
       THEN [kind |-> "finding", raised |-> "none",
             finding |-> Finding(row, row.Result, mcl, Str(S.ACUTE), parameter)]
       ELSE NoFinding
  ELSE LET f == float(row.Result) IN
       IF ~f.ok THEN OnValueError
       ELSE IF FloatGT(f.val, mcl)
            THEN IF mcl = 0
                 THEN [kind |-> "raise", raised |-> "ZeroDivisionError"]
                 ELSE [kind |-> "finding", raised |-> "none",
                       finding |-> Finding(row, f.val, mcl,
                                           Float(Round2(f.val.v, mcl)), parameter)]
            ELSE NoFinding

RECURSIVE RowLoop(_, _, _)
\* for _, row in param_data.iterrows(): ...   -> [raised, list]
RowLoop(parameter, param_data, mcl) ==
  IF param_data = << >> THEN [raised |-> "none", list |-> << >>]
  ELSE LET o == RowOutcome(parameter, Head(param_data), mcl) IN
       IF o.kind = "raise" THEN [raised |-> o.raised, list |-> << >>]
       ELSE LET rest == RowLoop(parameter, Tail(param_data), mcl) IN
            [raised |-> rest.raised,
             list   |-> IF o.kind = "finding" THEN <<o.finding>> \o rest.list
                        ELSE rest.list]

\* self.mcls.get(parameter, 0): an unlisted parameter given the limit 0
LookupLimitDefaultZero(parameter) ==
  IF HasKey(mcls, parameter) THEN DictGet(mcls, parameter)
  ELSE [kind |-> "value", value |-> 0]

\* mcl = self.mcls.get(parameter): None for a parameter the table lacks
LookupLimit(parameter) == DictGet(mcls, parameter)

RECURSIVE ParameterLoop(_, _)
\* for parameter in df['Parameter'].unique(): ...   -> [raised, violations]
ParameterLoop(params, df) ==
  IF params = << >> THEN [raised |-> "none", violations |-> << >>]
  ELSE LET parameter == Head(params)
           mcl       == LookupLimit(parameter)
       IN  IF mcl.kind = "None" THEN ParameterLoop(Tail(params), df)
           ELSE LET r == RowLoop(parameter, SelectRows(df, parameter), mcl.value) IN
                IF r.raised # "none" THEN [raised |-> r.raised, violations |-> << >>]
                ELSE LET rest == ParameterLoop(Tail(params), df) IN
                     [raised     |-> rest.raised,
                      violations |-> IF KeepParameter(r.list)
                                     THEN << <<parameter, r.list>> >> \o rest.violations
                                     ELSE rest.violations]

\* df['Parameter'], row['Result'] and the row fields read for a finding
\* raise KeyError when their column is missing.
detect_violations(df) ==
  IF "Parameter" \notin df.columns
  THEN [raised |-> "KeyError", violations |-> << >>]
  ELSE IF /\ "Result" \notin df.columns
          /\ \E i \in 1..Len(df.rows) : HasKey(mcls, df.rows[i].Parameter)
  THEN [raised |-> "KeyError", violations |-> << >>]
  ELSE LET r == ParameterLoop(unique(Column_Parameter(df.rows)), df.rows) IN
       IF /\ r.raised = "none"
          /\ r.violations # << >>
          /\ ~({"Sample_Location", "Collection_Time"} \subseteq df.columns)
       THEN [raised |-> "KeyError", violations |-> << >>]
       ELSE r

\* --------------------------------------------------------- assess_severity
\* A severity string "LABEL - note" is held as its two parts.
Severity(label, note) == [label |-> label, note |-> note]

RECURSIVE MaxOf(_)
\* max([...]) of a non-empty list of finite floats (1/Scale units).
MaxOf(xs) ==
  IF Len(xs) = 1 THEN xs[1]
  ELSE LET m == MaxOf(Tail(xs)) IN IF xs[1] >= m THEN xs[1] ELSE m

\* max([v['exceedance_factor'] for v in violation_list])
max_exceedance(violation_list) ==
  MaxOf([i \in 1..Len(violation_list) |-> violation_list[i].exceedance_factor.v])

\* one HIGH threshold for every parameter
HighThresholdUniform(parameter) == 2 * Scale

\* The factor above which a parameter is HIGH: 2.0 for Lead and PFOA, 1.5
\* for Copper, in 1/Scale units.
HighThreshold(parameter) ==
  IF parameter = P.Copper THEN (3 * Scale) \div 2 ELSE 2 * Scale

\* CRITICAL only for repeated detections
EcoliSeverityByCount(violation_list) ==
  IF Len(violation_list) > 1
  THEN Severity("CRITICAL", "Immediate public health risk")
  ELSE Severity("HIGH", "Immediate public health risk")

\* severity_assessment['E.coli'], whatever the list holds
EcoliSeverity(violation_list) ==
  Severity("CRITICAL", "Immediate public health risk")

\* the if/elif chain without its last branch
SeverityBranchesNoPFOA == {P.Ecoli, P.Lead, P.Copper}

\* The parameters the if/elif chain of assess_severity has a branch for.
SeverityBranches == {P.Ecoli, P.Lead, P.Copper, P.PFOA}

\* One pass of the loop body: the label of one item, "none" when no branch
\* of the if/elif chain matches the parameter.
SeverityOf(parameter, violation_list) ==
  IF parameter \notin SeverityBranches
  THEN [kind |-> "none", raised |-> "none"]
  ELSE IF parameter = P.Ecoli
  THEN [kind |-> "label", raised |-> "none", value |-> EcoliSeverity(violation_list)]
  ELSE IF violation_list = << >>
  THEN [kind |-> "raise", raised |-> "ValueError"]           \* max([])
  ELSE IF \E i \in 1..Len(violation_list) :
             ~IsFloat(violation_list[i].exceedance_factor)
  THEN [kind |-> "raise", raised |-> "TypeError"]            \* str compared with float
  ELSE LET m    == max_exceedance(violation_list)
           high == m > HighThreshold(parameter)
       IN  [kind |-> "label", raised |-> "none",
            value |->
              IF parameter = P.Lead
              THEN IF high THEN Severity("HIGH", "Significant health risk")
                   ELSE Severity("MODERATE", "Health concern")
              ELSE IF parameter = P.Copper
              THEN IF high THEN Severity("HIGH", "Corrosion control failure")
                   ELSE Severity("MODERATE", "Corrosion monitoring required")
              ELSE IF high THEN Severity("HIGH", "Persistent contamination")
                   ELSE Severity("MODERATE", "Monitoring required")]

RECURSIVE assess_severity(_)
\* for parameter, violation_list in violations.items(): ...
\*   -> [raised, severity_assessment]
assess_severity(violations) ==
  IF violations = << >> THEN [raised |-> "none", severity_assessment |-> << >>]
  ELSE LET parameter == Head(violations)[1]
           o         == SeverityOf(parameter, Head(violations)[2])
       IN  IF o.kind = "raise"
           THEN [raised |-> o.raised, severity_assessment |-> << >>]
           ELSE LET rest == assess_severity(Tail(violations)) IN
                [raised |-> rest.raised,
                 severity_assessment |->
                   IF o.kind = "label"
                   THEN << <<parameter, o.value>> >> \o rest.severity_assessment
                   ELSE rest.severity_assessment]

\* ------------------------------------------- generate_public_notifications
\* if water_system_info: f"{system_name} (PWSID: {pwsid})" else the literal
\* text "{system_header}".
system_header(water_system_info) ==
  IF water_system_info.kind # "None"
  THEN [system_name |-> water_system_info.system_name,
        pwsid |-> water_system_info.pwsid]
  ELSE [system_name |-> "{system_header}", pwsid |-> << >>]

\* max([v['result'] for v in violation_list])
max_result(violation_list) ==
  MaxOf([i \in 1..Len(violation_list) |-> violation_list[i].result.v])

\* f"{x/4:.1f}" for a finite float x of n/Scale: the double x/4 printed with
\* one decimal, in tenths.  The division by 4 is exact, so on a decimal tie
\* the digit follows the representation error of x, and an exactly
\* representable tie goes to the even digit.
Format1(n, d) ==
  LET t0  == n \div (d * 10)
      rem == n % (d * 10)
      s   == FloatErrSign(n)
  IN  IF 2 * rem < d * 10 THEN t0
      ELSE IF 2 * rem > d * 10 THEN t0 + 1
      ELSE IF s > 0 THEN t0 + 1
      ELSE IF s < 0 THEN t0
      ELSE IF t0 % 2 = 0 THEN t0 ELSE t0 + 1

\* A rendered detail line "- <label>: <value> <unit>"; kind tells how the
\* value was produced: "max" (computed maximum of the results), "literal"
\* (a number written in the template), "count" (len(violation_list)),
\* "ratio1" (one-decimal ratio, in tenths).
Detail(label, kind, value, unit) ==
  [label |-> label, kind |-> kind, value |-> value, unit |-> unit]

NoticeOf(parameter, violation_list, notification_req, sev, header) ==
  IF parameter = P.Ecoli THEN
    [title |-> "IMMEDIATE PUBLIC NOTICE - TIER 1 VIOLATION",
     system_header |-> header,
     statement |-> "URGENT: DO NOT DRINK THE WATER WITHOUT BOILING IT FIRST",
     details |-> << >>,
     health_effects |-> "",
     actions_heading |-> "IMMEDIATE ACTIONS REQUIRED",
     actions |-> <<"Boil all water for drinking, cooking, and brushing teeth for at least 1 minute",
                   "Use bottled water if available",
                   "Seek medical attention if you experience illness">>,
     timeframe |-> notification_req.timeframe,
     media |-> notification_req.media,
     severity |-> sev,
     date_of_violation |-> "January 15, 2025"]
  ELSE IF parameter = P.Lead THEN
    [title |-> "PUBLIC NOTICE - TIER 2 VIOLATION",
     system_header |-> header,
     statement |-> "Lead levels in your drinking water exceed the EPA action level.",
     details |-> <<Detail("Maximum Lead Level", "max", max_result(violation_list), "ppb"),
                   Detail("EPA Action Level", "literal", 15 * Scale, "ppb"),
                   Detail("Number of Exceedances", "count", Len(violation_list), "")>>,
     health_effects |-> "Lead can cause serious health problems",
     actions_heading |-> "ACTIONS BEING TAKEN",
     actions |-> <<"Corrosion control treatment optimization",
                   "Additional monitoring and testing",
                   "Public education campaign">>,
     timeframe |-> notification_req.timeframe,
     media |-> notification_req.media,
     severity |-> sev,
     date_of_violation |-> ""]
  ELSE IF parameter = P.Copper THEN
    [title |-> "PUBLIC NOTICE - TIER 2 VIOLATION",
     system_header |-> header,
     statement |-> "Copper levels in your drinking water exceed the EPA action level.",
     details |-> <<Detail("Maximum Copper Level", "max", max_result(violation_list), "ppb"),
                   Detail("EPA Action Level", "literal", 1300 * Scale, "ppb"),
                   Detail("Number of Exceedances", "count", Len(violation_list), "")>>,
     health_effects |-> "Copper is an essential nutrient, but",
     actions_heading |-> "ACTIONS BEING TAKEN",
     actions |-> <<"Corrosion control treatment adjustment",
                   "pH optimization",
                   "Additional monitoring">>,
     timeframe |-> notification_req.timeframe,
     media |-> notification_req.media,
     severity |-> sev,
     date_of_violation |-> ""]
  ELSE
    [title |-> "PUBLIC NOTICE - TIER 2 VIOLATION",
     system_header |-> header,
     statement |-> "PFOA levels in your drinking water exceed the EPA maximum contaminant level.",
     details |-> <<Detail("PFOA Level", "max", max_result(violation_list), "ng/L"),
                   Detail("EPA MCL", "literal", 4 * Scale, "ng/L"),
                   Detail("Exceedance Factor", "ratio1",
                          Format1(max_result(violation_list), 4), "x")>>,
     health_effects |-> "PFOA is a synthetic chemical that has been used in industry",
     actions_heading |-> "ACTIONS BEING TAKEN",
     actions |-> <<"Enhanced treatment system implementation",
                   "Source water investigation",
                   "Alternative water supply evaluation">>,
     timeframe |-> notification_req.timeframe,
     media |-> notification_req.media,
     severity |-> sev,
     date_of_violation |-> ""]

\* the if/elif chain without its last template
NoticeTemplatesNoPFOA == {P.Ecoli, P.Lead, P.Copper}

\* The parameters the if/elif chain of the notice templates has a branch for.
NoticeTemplates == {P.Ecoli, P.Lead, P.Copper, P.PFOA}

\* the tier of every notice taken as Tier 2
NoticeTierFixed(violation_list) == "Tier 2"

\* tier = violation_list[0]['tier']
NoticeTier(violation_list) == violation_list[1].tier

RECURSIVE NotificationLoop(_, _, _)
\* for parameter, violation_list in violations.items(): ...
NotificationLoop(items, severity, header) ==
  IF items = << >> THEN [raised |-> "none", notifications |-> << >>]
  ELSE LET parameter      == Head(items)[1]
           violation_list == Head(items)[2]
       IN
       IF violation_list = << >>
       THEN [raised |-> "IndexError", notifications |-> << >>]   \* violation_list[0]
       ELSE IF ~HasKey(notification_requirements, NoticeTier(violation_list))
       THEN [raised |-> "KeyError", notifications |-> << >>]
       ELSE IF parameter \in NoticeTemplates
       THEN IF ~HasKey(severity, parameter)
            THEN [raised |-> "KeyError", notifications |-> << >>] \* severity[parameter]
            ELSE LET rest == NotificationLoop(Tail(items), severity, header) IN
                 [raised |-> rest.raised,
                  notifications |->
                    << <<parameter,
                         NoticeOf(parameter, violation_list,
                                  Get(notification_requirements,
                                      NoticeTier(violation_list)),
                                  Get(severity, parameter), header)>> >>
                    \o rest.notifications]
       ELSE NotificationLoop(Tail(items), severity, header)

\* notices only for a system the service knows
NotificationsOnlyForKnownSystem(violations, severity, water_system_info) ==
  IF water_system_info.kind # "None" /\ water_system_info.data_source = "FALLBACK"
  THEN [raised |-> "none", notifications |-> << >>]
  ELSE NotificationLoop(violations, severity, system_header(water_system_info))

generate_public_notifications(violations, severity, water_system_info) ==
  NotificationLoop(violations, severity, system_header(water_system_info))

\* ---------------------------------------------- generate_federal_reporting
\* the result written where the exceedance factor belongs
ReportEntryResultForFactor(parameter, violation, sev) ==
  [parameter |-> parameter,
   violation_type |-> "MCL/AL Exceedance",
   tier |-> violation.tier,
   sample_location |-> violation.sample_location,
   result |-> violation.result,
   mcl_al |-> violation.mcl,
   exceedance_factor |-> violation.result,
   severity |-> sev]

\* the dict appended to federal_report['violations'] for one violation
ReportEntry(parameter, violation, sev) ==
  [parameter |-> parameter,
   violation_type |-> "MCL/AL Exceedance",
   tier |-> violation.tier,
   sample_location |-> violation.sample_location,
   result |-> violation.result,
   mcl_al |-> violation.mcl,
   exceedance_factor |-> violation.exceedance_factor,
   severity |-> sev]

RECURSIVE ReportEntries(_, _, _)
\* the entries appended for one parameter's violation_list
ReportEntries(parameter, violation_list, sev) ==
  IF violation_list = << >> THEN << >>
  ELSE <<ReportEntry(parameter, Head(violation_list), sev)>>
       \o ReportEntries(parameter, Tail(violation_list), sev)

RECURSIVE ReportViolations(_, _)
\* for parameter, violation_list in violations.items(): for violation in ...
ReportViolations(items, severity) ==
  IF items = << >> THEN [raised |-> "none", violations |-> << >>]
  ELSE LET parameter == Head(items)[1] IN
       IF Head(items)[2] # << >> /\ ~HasKey(severity, parameter)
       THEN [raised |-> "KeyError", violations |-> << >>]
       ELSE LET rest == ReportViolations(Tail(items), severity) IN
            [raised |-> rest.raised,
             violations |->
               (IF Head(items)[2] = << >> THEN << >>
                ELSE ReportEntries(parameter, Head(items)[2], Get(severity, parameter)))
               \o rest.violations]

EmergencyActions ==
  <<"Issue boil water advisory within 24 hours",
    "Collect repeat samples within 24 hours",
    "Notify state regulatory agency immediately",
    "Implement emergency disinfection protocols">>

CorrosionActions ==
  <<"Optimize corrosion control treatment",
    "Conduct follow-up monitoring",
    "Public notification within 30 days">>

PFOAActions ==
  <<"Evaluate treatment options",
    "Investigate contamination sources",
    "Public notification within 30 days">>

\* the checklist without its reporting item
LongTermActionsWithoutReports ==
  <<"Submit corrective action plan within 30 days",
    "Implement enhanced monitoring program",
    "Conduct system-wide evaluation",
    "Maintain public notification requirements">>

LongTermActions ==
  <<"Submit corrective action plan within 30 days",
    "Implement enhanced monitoring program",
    "Conduct system-wide evaluation",
    "Submit quarterly compliance reports",
    "Maintain public notification requirements">>

\* the emergency actions for any violation at all
ImmediateActionsForAnyViolation(violations) ==
  (IF violations # << >> THEN EmergencyActions ELSE << >>)
  \o (IF HasKey(violations, P.Lead) \/ HasKey(violations, P.Copper)
      THEN CorrosionActions ELSE << >>)
  \o (IF HasKey(violations, P.PFOA) THEN PFOAActions ELSE << >>)

immediate_actions_required(violations) ==
  (IF HasKey(violations, P.Ecoli) THEN EmergencyActions ELSE << >>)
  \o (IF HasKey(violations, P.Lead) \/ HasKey(violations, P.Copper)
      THEN CorrosionActions ELSE << >>)
  \o (IF HasKey(violations, P.PFOA) THEN PFOAActions ELSE << >>)

\* now is the value of datetime.now().strftime('%Y-%m-%d') at the call.
generate_federal_reporting(violations, severity, water_system_info, now) ==
  LET known == water_system_info.kind # "None"
      v     == ReportViolations(violations, severity)
  IN  [raised |-> v.raised,
       federal_report |->
         [report_type |-> "Drinking Water Violation Report",
          pwsid |-> IF known THEN water_system_info.pwsid ELSE PWSID.Clinton,
          water_system_name |-> IF known THEN water_system_info.system_name
                                ELSE "Clinton Machine PWS",
          population_served |-> IF known THEN water_system_info.population_served
                                ELSE 250,
          system_type |-> IF known THEN water_system_info.system_type ELSE "NCWS",
          location |-> IF known
                       THEN <<water_system_info.city_name,
                              water_system_info.county_name,
                              water_system_info.state_code>>
                       ELSE <<"Unknown">>,
          report_date |-> now,
          violation_date |-> "2025-01-15",
          violations |-> v.violations,
          immediate_actions_required |-> immediate_actions_required(violations),
          long_term_actions |-> LongTermActions,
          system_data_source |-> IF known THEN water_system_info.data_source
                                 ELSE "FALLBACK"]]

\* ------------------------------------------------- fetch_water_system_info
\* The record returned when the lookup fails.
FallbackInfo(pwsid) ==
  [kind |-> "dict", pwsid |-> pwsid, system_name |-> "Clinton Machine PWS",
   population_served |-> 250, system_type |-> "NCWS", activity_status |-> "A",
   state_code |-> "OH", city_name |-> "Unknown", county_name |-> "Unknown",
   owner_type |-> "P", data_source |-> "FALLBACK"]

\* raw.get(lower, raw.get(upper, default)) on the first record of the reply
RawGet(raw, lower, upper, default) ==
  IF HasKey(raw, lower) THEN Get(raw, lower)
  ELSE IF HasKey(raw, upper) THEN Get(raw, upper)
  ELSE default

\* A population value of the JSON body: a number, a text or null.
PopInt(n) == [kind |-> "int", v |-> n, text |-> << >>]

PopStr(text) == [kind |-> "str", v |-> 0, text |-> text]

PopNone == [kind |-> "None", v |-> 0, text |-> << >>]

\* if system_info['population_served']: int(...), 0 on ValueError/TypeError
ConvertPopulation(p) ==
  IF p.kind = "int" THEN p
  ELSE IF p.kind = "str" /\ p.text # << >>
  THEN IF AllDigits(p.text) THEN PopInt(DigitsValue(p.text)) ELSE PopInt(0)
  ELSE p

\* f"{population_served:,}" formats a number; None or '' raise.
Printable(p) == p.kind = "int"

\* The replies of the EPA service that the model draws from: a timeout, any
\* other exception, a non-200 status, and status 200 with a JSON body.
Raw ==
  [Lower |->
      << <<"pwsid", PWSID.Clinton>>, <<"pws_name", "CLINTON MACHINE">>,
      <<"population_served_count", PopInt(76)>>, <<"pws_type_code", "NTNCWS">>,
      <<"pws_activity_code", "A">>, <<"state_code", "OH">>,
      <<"city_name", "CLINTON">>, <<"county_name", "SUMMIT">>,
      <<"owner_type_code", "P">> >>,
   Upper |->
      << <<"PWSID", PWSID.Clinton>>, <<"PWS_NAME", "CLINTON MACHINE">>,
      <<"POPULATION_SERVED_COUNT", PopInt(76)>>, <<"PWS_TYPE_CODE", "NTNCWS">>,
      <<"PWS_ACTIVITY_CODE", "A">>, <<"STATE_CODE", "OH">>,
      <<"CITY_NAME", "CLINTON">>, <<"COUNTY_NAME", "SUMMIT">>,
      <<"OWNER_TYPE_CODE", "P">> >>,
   Bare |-> << <<"pws_name", "CLINTON MACHINE">> >>,
   TextPopulation |->
      << <<"pwsid", PWSID.Clinton>>, <<"pws_name", "CLINTON MACHINE">>,
      <<"population_served_count", PopStr(<<"7", "6">>)>> >>,
   NullPopulation |->
      << <<"pwsid", PWSID.Clinton>>, <<"pws_name", "CLINTON MACHINE">>,
      <<"population_served_count", PopNone>> >>]

ApiReplies ==
  { [kind |-> "Timeout", status_code |-> 0, data |-> << >>],
    [kind |-> "Exception", status_code |-> 0, data |-> << >>],
    [kind |-> "response", status_code |-> 503, data |-> << >>],
    [kind |-> "response", status_code |-> 200, data |-> << >>],
    [kind |-> "response", status_code |-> 200, data |-> <<Raw.Lower>>],
    [kind |-> "response", status_code |-> 200, data |-> <<Raw.Upper>>],
    [kind |-> "response", status_code |-> 200, data |-> <<Raw.Bare>>],
    [kind |-> "response", status_code |-> 200, data |-> <<Raw.TextPopulation>>],
    [kind |-> "response", status_code |-> 200, data |-> <<Raw.NullPopulation>>] }

\* only the timeout handled
CaughtOnlyTimeout == {"Timeout"}

\* except requests.exceptions.Timeout: ... except Exception as e: ...
CaughtExceptions == {"Timeout", "Exception"}

\* -> [raised, info].  requests.get raises (Timeout, or another exception)
\* or delivers a response; the record is built from the first element of a
\* 200 reply and its population printed; every other way out of the try
\* block ends at the fallback record.
fetch_water_system_info(pwsid, reply) ==
  IF reply.kind # "response"
  THEN IF reply.kind \in CaughtExceptions
       THEN [raised |-> "none", info |-> FallbackInfo(pwsid)]
       ELSE [raised |-> reply.kind, info |-> None]
  ELSE IF reply.status_code = 200 /\ Len(reply.data) > 0
  THEN LET raw == reply.data[1]
           pop == ConvertPopulation(
                    RawGet(raw, "population_served_count",
                           "POPULATION_SERVED_COUNT", PopInt(0)))
       IN
       IF ~Printable(pop)
       THEN IF "Exception" \in CaughtExceptions
            THEN [raised |-> "none", info |-> FallbackInfo(pwsid)]
            ELSE [raised |-> "TypeError", info |-> None]
       ELSE
       [raised |-> "none",
        info |->
       [kind |-> "dict",
        pwsid |-> RawGet(raw, "pwsid", "PWSID", pwsid),
        system_name |-> RawGet(raw, "pws_name", "PWS_NAME", "Unknown"),
        population_served |-> pop.v,
        system_type |-> RawGet(raw, "pws_type_code", "PWS_TYPE_CODE", "Unknown"),
        activity_status |->
          RawGet(raw, "pws_activity_code", "PWS_ACTIVITY_CODE", "Unknown"),
        state_code |-> RawGet(raw, "state_code", "STATE_CODE", "Unknown"),
        city_name |-> RawGet(raw, "city_name", "CITY_NAME", "Unknown"),
        county_name |-> RawGet(raw, "county_name", "COUNTY_NAME", "Unknown"),
        owner_type |-> RawGet(raw, "owner_type_code", "OWNER_TYPE_CODE", "Unknown"),
        data_source |-> "EPA_API"]]
  ELSE [raised |-> "none", info |-> FallbackInfo(pwsid)]

\* --------------------------------------------------- validate_data_quality
UpperLetters ==
  {"A", "B", "C", "D", "E", "F", "G", "H", "I", "J", "K", "L", "M",
   "N", "O", "P", "Q", "R", "S", "T", "U", "V", "W", "X", "Y", "Z"}

\* str.match(r'^[A-Z]{2}\d{7}$')
MatchesPwsidPattern(t) ==
  /\ Len(t) = 9
  /\ \A i \in 1..2 : t[i] \in UpperLetters
  /\ \A i \in 3..9 : t[i] \in Digits

RequiredCols ==
  {"PWSID", "Sample_Date", "Parameter", "Result", "Units", "MCL", "Lab_Cert_Number"}

validate_data_quality(df) ==
  LET missing_cols  == RequiredCols \ df.columns
      invalid       == \E i \in 1..Len(df.rows) : ~MatchesPwsidPattern(df.rows[i].PWSID)
      cert_missing  == \E i \in 1..Len(df.rows) : df.rows[i].Lab_Cert_Number = ""
      time_missing  == \E i \in 1..Len(df.rows) : df.rows[i].Collection_Time = ""
  IN
  IF ~({"PWSID", "Lab_Cert_Number", "Collection_Time"} \subseteq df.columns)
  THEN [raised |-> "KeyError", validation_results |-> [kind |-> "None"]]
  ELSE [raised |-> "none",
        validation_results |->
          [kind |-> "dict",
           valid |-> (missing_cols = {}),
           issues |-> (IF missing_cols # {} THEN <<"Missing required columns">> ELSE << >>)
                      \o (IF invalid THEN <<"Invalid PWSID format">> ELSE << >>),
           warnings |-> (IF cert_missing
                         THEN <<"Missing laboratory certification numbers">> ELSE << >>)
                        \o (IF time_missing THEN <<"Missing collection times">> ELSE << >>),
           quality_score |-> 100 - (IF cert_missing THEN 10 ELSE 0)
                                 - (IF time_missing THEN 5 ELSE 0)]]

\* ------------------------------------------------------ laboratory tables
\* Texts of the Result column that the generated tables draw from.
T ==
  [t15 |-> <<"1", "5">>,
   t15_01 |-> <<"1", "5", ".", "0", "1">>,
   t18_2 |-> <<"1", "8", ".", "2">>,
   t30 |-> <<"3", "0">>,
   t30_1 |-> <<"3", "0", ".", "1">>,
   t16_8 |-> <<"1", "6", ".", "8">>,
   t22_1 |-> <<"2", "2", ".", "1">>,
   t25_3 |-> <<"2", "5", ".", "3">>,
   t1300 |-> <<"1", "3", "0", "0">>,
   t1400 |-> <<"1", "4", "0", "0">>,
   t1950 |-> <<"1", "9", "5", "0">>,
   t1960 |-> <<"1", "9", "6", "0">>,
   t2100 |-> <<"2", "1", "0", "0">>,
   t4 |-> <<"4">>,
   t8_1 |-> <<"8", ".", "1">>,
   t8_2 |-> <<"8", ".", "2">>,
   t8_5 |-> <<"8", ".", "5">>,
   t12 |-> <<"1", "2">>,
   t0 |-> <<"0">>,
   t1 |-> <<"1">>,
   t2 |-> <<"2">>]

\* The <<Parameter, Result text>> pairs a generated row is drawn from: the
\* sentinels of E.coli, values at, just above and well above each limit and
\* each HIGH threshold, a decimal tie of round(x/4, 2), a missing value, a
\* text that is no number, and an unregulated parameter.
RowKinds ==
  { <<P.Ecoli, S.Present>>, <<P.Ecoli, S.Absent>>, <<P.Ecoli, S.NA>>,
    <<P.Lead, T.t15>>, <<P.Lead, T.t15_01>>, <<P.Lead, T.t18_2>>, <<P.Lead, T.t30>>,
    <<P.Lead, T.t30_1>>, <<P.Lead, S.ND>>, <<P.Lead, S.NA>>,
    <<P.Copper, T.t1300>>, <<P.Copper, T.t1400>>, <<P.Copper, T.t1950>>,
    <<P.Copper, T.t1960>>, <<P.Copper, S.ND>>,
    <<P.PFOA, T.t4>>, <<P.PFOA, T.t8_1>>, <<P.PFOA, T.t8_2>>, <<P.PFOA, T.t8_5>>,
    <<P.PFOA, S.NA>>,
    <<P.Nitrate, T.t12>> }

\* The table read from a CSV file whose data lines are the given pairs.
Frame(kinds) ==
  DataFrame(LabColumns, [i \in 1..Len(kinds) |-> Row(kinds[i][1], kinds[i][2], i)])

\* The tables the runs draw from.  Lead, Copper, Worked: the worked examples,
\* four Lead samples and two Copper samples.  Reorder: a malformed first row
\* whose removal changes the order in which the parameters are first met.
\* Mixed: interleaved parameters.  EcoliCount: an E.coli count reported as a
\* number, with a Lead sample just above its limit.
Example ==
  LET Lead   == << <<P.Lead, T.t18_2>>, <<P.Lead, T.t22_1>>, <<P.Lead, T.t16_8>>,
                   <<P.Lead, T.t25_3>> >>
      Copper == << <<P.Copper, T.t1400>>, <<P.Copper, T.t2100>> >>
  IN  [Lead |-> Lead,
       Copper |-> Copper,
       Worked |-> Lead \o Copper,
       Reorder |-> << <<P.Lead, S.ND>>, <<P.PFOA, T.t8_2>>, <<P.Lead, T.t18_2>> >>,
       Mixed |-> << <<P.Ecoli, S.Present>>, <<P.Lead, T.t18_2>>, <<P.Nitrate, T.t12>>,
                    <<P.Ecoli, S.Present>>, <<P.PFOA, T.t8_2>>, <<P.Lead, S.NA>>,
                    <<P.Lead, T.t30_1>> >>,
       EcoliCount |-> << <<P.Ecoli, T.t4>>, <<P.Lead, T.t15_01>> >>]

\* The table of a file in which a cell of the first data line is empty
\* (read_csv delivers NaN, here "").
WithoutCertificate(frame) ==
  DataFrame(frame.columns,
            [i \in 1..Len(frame.rows) |->
               IF i = 1 THEN [frame.rows[i] EXCEPT !.Lab_Cert_Number = ""]
               ELSE frame.rows[i]])

WithoutCollectionTime(frame) ==
  DataFrame(frame.columns,
            [i \in 1..Len(frame.rows) |->
               IF i = 1 THEN [frame.rows[i] EXCEPT !.Collection_Time = ""]
               ELSE frame.rows[i]])

\* The table of a file that lacks one column.
WithoutColumn(frame, col) == DataFrame(frame.columns \ {col}, frame.rows)

\* The same table in the file of another water system.
WithPwsid(frame, pwsid) ==
  DataFrame(frame.columns,
            [i \in 1..Len(frame.rows) |-> [frame.rows[i] EXCEPT !.PWSID = pwsid]])

\* What pd.read_csv can deliver: a table of up to MaxSamples rows (a file
\* with only its header line gives no rows), or one of the examples.
InputFrames ==
  {Frame(k) : k \in UNION {[1..n -> RowKinds] : n \in 0..MaxSamples}}
    \cup {Frame(Example.Lead), Frame(Example.Copper), Frame(Example.Worked),
          Frame(Example.Reorder), Frame(Example.Mixed),
          WithPwsid(Frame(Example.Copper), PWSID.Other),
          Frame(Example.EcoliCount),
          WithPwsid(Frame(Example.Copper), PWSID.Lower),
          WithoutCertificate(Frame(Example.Lead)),
          WithoutCollectionTime(WithoutCertificate(Frame(Example.Copper))),
          WithoutColumn(Frame(Example.Lead), "MCL")}

\* Values of datetime.now().strftime('%Y-%m-%d')
Dates == {"2025-01-15", "2025-01-16"}

\* -------------------------------------------------------------------- main
VARIABLES
  pc,                 \* position in main()
  analyzer,           \* the three tables the EPAComplianceAnalyzer object holds
  df,                 \* the loaded table
  api_reply,          \* the outcome of requests.get while the lookup runs
  water_system_info,
  validation_results,
  violations,
  severity,
  notifications,
  federal_report,
  files,              \* what the two json.dump calls have written
  exception,          \* the exception that ended main(), "none" otherwise
  active_connections, \* ConnectionManager.active_connections
  ws_state,           \* each websocket: its websocket_endpoint coroutine and its client
  broadcast_task,     \* each running ConnectionManager.broadcast call
  loader,             \* RealViolationDataLoader and its last call
  workflow,           \* ProductionAgenticEPASystem and its workflow call
  analysis            \* one POST /analyze request of the demo backend

\* The variables of one run of compliance_analysis.main().
pipeline_vars ==
  <<pc, analyzer, df, api_reply, water_system_info, validation_results, violations,
    severity, notifications, federal_report, files, exception>>

\* The variables of the demo backend's ConnectionManager.
manager_vars == <<active_connections, ws_state, broadcast_task>>

\* What a run of compliance_analysis.main() does not touch.
outside_pipeline == <<manager_vars, loader, workflow, analysis>>

\* What the ConnectionManager and the websocket endpoints do not touch.
outside_manager == <<pipeline_vars, loader, workflow, analysis>>

\* What the RealViolationDataLoader does not touch.
outside_loader == <<pipeline_vars, manager_vars, workflow, analysis>>

\* What the ProductionAgenticEPASystem does not touch.
outside_workflow == <<pipeline_vars, manager_vars, loader, analysis>>

\* What a POST /analyze request does not touch (the messages it hands to
\* manager.broadcast are recorded in analysis.events).
outside_analysis == <<pipeline_vars, manager_vars, loader, workflow>>

vars == <<pipeline_vars, manager_vars, loader, workflow, analysis>>

\* A request that has not begun.
AnalysisNew ==
  [pc |-> "new", pwsid |-> << >>, violations |-> << >>, agent |-> 0,
   events |-> << >>, raised |-> "none"]

\* ProductionAgenticEPASystem(): agent_results = {}, execution_log = []
WorkflowNew ==
  [pc |-> "new", lab_data |-> << >>, agent_results |-> << >>,
   execution_log |-> << >>, saved |-> << >>, returned |-> << >>]

\* The loader before __init__ has read the violations file.
LoaderNew ==
  [pc |-> "new", real_violations_cache |-> << >>, pwsid |-> << >>,
   lab_data |-> << >>, result |-> << >>, raised |-> "none"]

\* The websockets and the broadcast calls of the model.
MaxClients == 3

MaxBroadcasts == 2

Clients == 1..MaxClients

Broadcasts == 1..MaxBroadcasts

\* A broadcast call that has not started.
BroadcastIdle ==
  [pc |-> "idle", index |-> 0, sent |-> {}, disconnected |-> << >>, stayed |-> {}]

\* analyzer = EPAComplianceAnalyzer()
EPAComplianceAnalyzer ==
  [mcls |-> mcls, violation_tiers |-> violation_tiers,
   notification_requirements |-> notification_requirements]

Init ==
  /\ pc = "start"
  /\ analyzer = EPAComplianceAnalyzer
  /\ df = EmptyDataFrame
  /\ api_reply = None
  /\ water_system_info = None
  /\ validation_results = None
  /\ violations = << >>
  /\ severity = << >>
  /\ notifications = << >>
  /\ federal_report = None
  /\ files = None
  /\ exception = "none"
  /\ active_connections = << >>
  /\ ws_state = [c \in Clients |-> "new"]
  /\ broadcast_task = [b \in Broadcasts |-> BroadcastIdle]
  /\ loader = LoaderNew
  /\ workflow = WorkflowNew
  /\ analysis = AnalysisNew

\* df = analyzer.load_data(path); if df.empty: return
\* read_csv delivers a table, or raises and load_data returns pd.DataFrame().
LoadData ==
  /\ pc = "start"
  /\ UNCHANGED analyzer
  /\ UNCHANGED outside_pipeline
  /\ \E d \in InputFrames \cup {EmptyDataFrame} :
       /\ df' = d
       /\ pc' = IF empty(d) THEN "returned" ELSE "loaded"
  /\ UNCHANGED <<api_reply, water_system_info, validation_results, violations,
                 severity, notifications, federal_report, files, exception>>

\* pwsid = df['PWSID'].iloc[0] if not df.empty else 'OH7700001'
requested_pwsid == IF ~empty(df) THEN df.rows[1].PWSID ELSE PWSID.Clinton

\* main() reads the PWSID and fetch_water_system_info sends its request:
\* response = requests.get(url, timeout=self.api_timeout)
RequestWaterSystem ==
  /\ pc = "loaded"
  /\ UNCHANGED analyzer
  /\ UNCHANGED outside_pipeline
  /\ IF ~empty(df) /\ "PWSID" \notin df.columns
     THEN /\ pc' = "crashed"
          /\ exception' = "KeyError"
          /\ UNCHANGED api_reply
     ELSE /\ \E reply \in ApiReplies : api_reply' = reply
          /\ pc' = "requested"
          /\ UNCHANGED exception
  /\ UNCHANGED <<df, water_system_info, validation_results, violations, severity,
                 notifications, federal_report, files>>

\* The rest of fetch_water_system_info: the reply (a local of the function)
\* is turned into the record that main() keeps as water_system_info.
FetchWaterSystemInfo ==
  /\ pc = "requested"
  /\ UNCHANGED analyzer
  /\ UNCHANGED outside_pipeline
  /\ LET r == fetch_water_system_info(requested_pwsid, api_reply) IN
       IF r.raised # "none"
       THEN /\ pc' = "crashed"
            /\ exception' = r.raised
            /\ UNCHANGED water_system_info
       ELSE /\ water_system_info' = r.info
            /\ pc' = "fetched"
            /\ UNCHANGED exception
  /\ api_reply' = None
  /\ UNCHANGED <<df, validation_results, violations, severity, notifications,
                 federal_report, files>>

\* validation_results = analyzer.validate_data_quality(df)
ValidateDataQuality ==
  /\ pc = "fetched"
  /\ UNCHANGED analyzer
  /\ UNCHANGED outside_pipeline
  /\ LET r == validate_data_quality(df) IN
       IF r.raised # "none"
       THEN /\ pc' = "crashed"
            /\ exception' = r.raised
            /\ UNCHANGED validation_results
       ELSE /\ validation_results' = r.validation_results
            /\ pc' = "validated"
            /\ UNCHANGED exception
  /\ UNCHANGED <<df, api_reply, water_system_info, violations, severity, notifications,
                 federal_report, files>>

\* violations = analyzer.detect_violations(df)
DetectViolations ==
  /\ pc = "validated"
  /\ UNCHANGED analyzer
  /\ UNCHANGED outside_pipeline
  /\ LET r == detect_violations(df) IN
       IF r.raised # "none"
       THEN /\ pc' = "crashed"
            /\ exception' = r.raised
            /\ UNCHANGED violations
       ELSE /\ violations' = r.violations
            /\ pc' = "detected"
            /\ UNCHANGED exception
  /\ UNCHANGED <<df, api_reply, water_system_info, validation_results, severity,
                 notifications, federal_report, files>>

\* the assessment takes the findings out of the map it was given
AssessSeverityConsumingFindings ==
  /\ pc = "detected"
  /\ UNCHANGED analyzer
  /\ UNCHANGED outside_pipeline
  /\ LET r == assess_severity(violations) IN
       IF r.raised # "none"
       THEN /\ pc' = "crashed"
            /\ exception' = r.raised
            /\ UNCHANGED <<severity, violations>>
       ELSE /\ severity' = r.severity_assessment
            /\ violations' = << >>
            /\ pc' = "assessed"
            /\ UNCHANGED exception
  /\ UNCHANGED <<df, api_reply, water_system_info, validation_results,
                 notifications, federal_report, files>>

\* severity = analyzer.assess_severity(violations)
AssessSeverity ==
  /\ pc = "detected"
  /\ UNCHANGED analyzer
  /\ UNCHANGED outside_pipeline
  /\ LET r == assess_severity(violations) IN
       IF r.raised # "none"
       THEN /\ pc' = "crashed"
            /\ exception' = r.raised
            /\ UNCHANGED severity
       ELSE /\ severity' = r.severity_assessment
            /\ pc' = "assessed"
            /\ UNCHANGED exception
  /\ UNCHANGED <<df, api_reply, water_system_info, validation_results, violations,
                 notifications, federal_report, files>>

\* notifications = analyzer.generate_public_notifications(violations, severity, water_system_info)
GeneratePublicNotifications ==
  /\ pc = "assessed"
  /\ UNCHANGED analyzer
  /\ UNCHANGED outside_pipeline
  /\ LET r == generate_public_notifications(violations, severity, water_system_info) IN
       IF r.raised # "none"
       THEN /\ pc' = "crashed"
            /\ exception' = r.raised
            /\ UNCHANGED notifications
       ELSE /\ notifications' = r.notifications
            /\ pc' = "notified"
            /\ UNCHANGED exception
  /\ UNCHANGED <<df, api_reply, water_system_info, validation_results, violations, severity,
                 federal_report, files>>

\* federal_report = analyzer.generate_federal_reporting(violations, severity, water_system_info)
GenerateFederalReporting ==
  /\ pc = "notified"
  /\ UNCHANGED analyzer
  /\ UNCHANGED outside_pipeline
  /\ \E now \in Dates :
       LET r == generate_federal_reporting(violations, severity, water_system_info, now) IN
       IF r.raised # "none"
       THEN /\ pc' = "crashed"
            /\ exception' = r.raised
            /\ UNCHANGED federal_report
       ELSE /\ federal_report' = r.federal_report
            /\ pc' = "reported"
            /\ UNCHANGED exception
  /\ UNCHANGED <<df, api_reply, water_system_info, validation_results, violations, severity,
                 notifications, files>>

\* the files written before the federal report is assembled
SaveResultsBeforeReport ==
  /\ pc = "notified"
  /\ UNCHANGED analyzer
  /\ UNCHANGED outside_pipeline
  /\ files' = [kind |-> "written",
               compliance_report |->
                 [water_system_info |-> water_system_info,
                  validation_results |-> validation_results,
                  violations |-> violations,
                  severity_assessment |-> severity,
                  federal_report |-> federal_report],
               public_notifications |-> notifications]
  /\ pc' = "saved"
  /\ UNCHANGED <<df, api_reply, water_system_info, validation_results, violations, severity,
                 notifications, federal_report, exception>>

\* the two json.dump calls, then return violations, severity, notifications, federal_report
SaveResults ==
  /\ pc = "reported"
  /\ UNCHANGED analyzer
  /\ UNCHANGED outside_pipeline
  /\ files' = [kind |-> "written",
               compliance_report |->
                 [water_system_info |-> water_system_info,
                  validation_results |-> validation_results,
                  violations |-> violations,
                  severity_assessment |-> severity,
                  federal_report |-> federal_report],
               public_notifications |-> notifications]
  /\ pc' = "saved"
  /\ UNCHANGED <<df, api_reply, water_system_info, validation_results, violations, severity,
                 notifications, federal_report, exception>>

Next ==
  \/ LoadData
  \/ RequestWaterSystem
  \/ FetchWaterSystemInfo
  \/ ValidateDataQuality
  \/ DetectViolations
  \/ AssessSeverity
  \/ GeneratePublicNotifications
  \/ GenerateFederalReporting
  \/ SaveResults

Spec == Init /\ [][Next]_vars

\* ================================================================ properties
\* main() has run detect_violations / assess_severity / ... to completion.
Detected == pc \in {"detected", "assessed", "notified", "reported", "saved"}

Assessed == pc \in {"assessed", "notified", "reported", "saved"}

Notified == pc \in {"notified", "reported", "saved"}

Reported == pc \in {"reported", "saved"}

NumericParameters == {P.Lead, P.Copper, P.PFOA}

\* The findings recorded for the sample taken at a site.
FindingsAt(parameter, site) ==
  IF HasKey(violations, parameter)
  THEN {j \in 1..Len(Get(violations, parameter)) :
          Get(violations, parameter)[j].sample_location = site}
  ELSE {}

\* The number a Result cell parses to exceeds the limit.
AboveLimit(row) ==
  LET f == float(row.Result) IN
  f.ok /\ ~f.val.nan /\ f.val.v > Get(mcls, row.Parameter) * Scale

\* C1: once detection has run, a sample of Lead, Copper or PFOA whose result
\* parses as a number has exactly one finding if its value is above the
\* limit of its parameter and none otherwise; a value equal to the limit
\* has none.
C1_NumericFindingIffAboveLimit ==
  Detected =>
    \A i \in 1..Len(df.rows) :
      LET row == df.rows[i] IN
      (row.Parameter \in NumericParameters /\ float(row.Result).ok) =>
        /\ Cardinality(FindingsAt(row.Parameter, row.Sample_Location))
             = IF AboveLimit(row) THEN 1 ELSE 0
        /\ (float(row.Result).val = Float(Get(mcls, row.Parameter) * Scale)
             => FindingsAt(row.Parameter, row.Sample_Location) = {})

\* A Lead sample at the limit (no finding) next to one above it (a finding).
C1_Witness ==
  /\ pc = "detected"
  /\ \E i, j \in 1..Len(df.rows) :
       /\ df.rows[i].Parameter = P.Lead /\ df.rows[i].Result = Str(T.t15)
       /\ FindingsAt(P.Lead, i) = {}
       /\ df.rows[j].Parameter = P.Lead /\ df.rows[j].Result = Str(T.t15_01)
       /\ FindingsAt(P.Lead, j) # {}

\* C2: once detection has run (and it never ends in an exception), an E.coli
\* sample has a finding exactly if its result is the text 'Present'.
C2_EcoliFindingIffPresent ==
  /\ pc # "crashed"
  /\ Detected =>
       \A i \in 1..Len(df.rows) :
         df.rows[i].Parameter = P.Ecoli =>
           (FindingsAt(P.Ecoli, df.rows[i].Sample_Location) # {}
              <=> df.rows[i].Result = Str(S.Present))

\* One E.coli sample Present (found) and one missing or Absent (not found).
C2_Witness ==
  /\ pc = "detected"
  /\ \E i, j \in 1..Len(df.rows) :
       /\ df.rows[i].Parameter = P.Ecoli /\ df.rows[i].Result = Str(S.Present)
       /\ FindingsAt(P.Ecoli, i) # {}
       /\ df.rows[j].Parameter = P.Ecoli /\ df.rows[j].Result = NaN
       /\ FindingsAt(P.Ecoli, j) = {}

\* A sample that breaches the rule of its parameter.
Offending(row) ==
  IF row.Parameter = P.Ecoli THEN row.Result = Str(S.Present)
  ELSE row.Parameter \in NumericParameters /\ AboveLimit(row)

ParametersWithFindings ==
  {df.rows[i].Parameter : i \in {k \in 1..Len(df.rows) : Offending(df.rows[k])}}

\* Each key occurs once in the items of a dict.
OneItemPerKey(d) == \A i, j \in 1..Len(d) : d[i][1] = d[j][1] => i = j

Malformed(row) ==
  /\ row.Parameter \in NumericParameters
  /\ LET f == float(row.Result) IN ~f.ok \/ f.val.nan

\* The table without its i-th row.
WithoutRow(d, i) ==
  DataFrame(d.columns, SubSeq(d.rows, 1, i - 1) \o SubSeq(d.rows, i + 1, Len(d.rows)))

\* Two dicts are equal (==): the same keys with the same values, in whatever
\* order the keys were inserted.
DictEq(a, b) ==
  /\ OneItemPerKey(a) /\ OneItemPerKey(b)
  /\ Keys(a) = Keys(b)
  /\ \A k \in Keys(a) : Get(a, k) = Get(b, k)

\* C5: main never ends in an exception, and once detection has run a
\* malformed sample of a numeric parameter has no finding and the findings
\* map holds, for every parameter, the list of findings that detection
\* yields for the table without that sample.
C5_MalformedSampleSkipped ==
  /\ pc # "crashed"
  /\ Detected =>
       \A i \in 1..Len(df.rows) :
         Malformed(df.rows[i]) =>
           /\ FindingsAt(df.rows[i].Parameter, df.rows[i].Sample_Location) = {}
           /\ LET r == detect_violations(WithoutRow(df, i)) IN
                r.raised = "none" /\ DictEq(r.violations, violations)

\* A Lead sample reading 'ND' ahead of a PFOA and a Lead sample that both
\* have a finding.
C5_Witness ==
  /\ pc = "detected"
  /\ df = Frame(Example.Reorder)
  /\ FindingsAt(P.Lead, 1) = {}
  /\ FindingsAt(P.Lead, 3) # {}
  /\ FindingsAt(P.PFOA, 2) # {}

\* main() is over.
Finished == pc \in {"returned", "saved", "crashed"}

\* C6: a run over an empty sample set ends having produced empty findings,
\* an empty severity map, no notices and a federal report whose violations
\* list is empty.
C6_EmptySampleSetYieldsEmptyReport ==
  (Finished /\ df.rows = << >>) =>
    /\ pc = "saved"
    /\ violations = << >> /\ severity = << >> /\ notifications = << >>
    /\ federal_report.violations = << >>

\* C7: once severity has been assessed, E.coli with at least one finding is
\* labelled CRITICAL, whatever the number of its findings.
C7_EcoliAlwaysCritical ==
  Assessed =>
    (HasKey(violations, P.Ecoli) =>
       /\ HasKey(severity, P.Ecoli)
       /\ Get(severity, P.Ecoli).label = "CRITICAL")

\* E.coli labelled CRITICAL on a single finding, next to a numeric parameter.
C7_Witness ==
  /\ pc = "assessed"
  /\ HasKey(violations, P.Ecoli)
  /\ Len(Get(violations, P.Ecoli)) = 1
  /\ Get(severity, P.Ecoli).label = "CRITICAL"
  /\ HasKey(violations, P.Lead)

\* The largest exceedance factor among the findings of a parameter.
LargestFactor(parameter) ==
  LET fs == {Get(violations, parameter)[j].exceedance_factor.v :
               j \in 1..Len(Get(violations, parameter))}
  IN  CHOOSE m \in fs : \A x \in fs : x <= m

\* C8: once severity has been assessed, Lead and PFOA are HIGH exactly if
\* their largest two-decimal factor is above 2.00 and Copper exactly if it
\* is above 1.50, and MODERATE otherwise; the four Lead samples of the
\* worked example (largest factor 1.69) give MODERATE and its two Copper
\* samples (largest factor 1.62) give HIGH.
C8_SeverityFromLargestFactor ==
  Assessed =>
    /\ \A p \in NumericParameters :
         HasKey(violations, p) =>
           /\ HasKey(severity, p)
           /\ Get(severity, p).label =
                IF LargestFactor(p) > (IF p = P.Copper THEN 150 ELSE 200)
                THEN "HIGH" ELSE "MODERATE"
    /\ df = Frame(Example.Worked) =>
         /\ Len(Get(violations, P.Lead)) = 4
         /\ LargestFactor(P.Lead) = 169
         /\ Get(severity, P.Lead).label = "MODERATE"
         /\ Len(Get(violations, P.Copper)) = 2
         /\ LargestFactor(P.Copper) = 162
         /\ Get(severity, P.Copper).label = "HIGH"

\* The worked example has been assessed.
C8_Witness ==
  /\ pc = "assessed"
  /\ df = Frame(Example.Worked)
  /\ Get(severity, P.Lead).label = "MODERATE"
  /\ Get(severity, P.Copper).label = "HIGH"

\* The findings with a numeric factor, each with its parameter.
NumericFindings ==
  {<<i, j>> \in (1..Len(violations)) \X (1..Len(df.rows)) :
     /\ j <= Len(violations[i][2])
     /\ IsFloat(violations[i][2][j].exceedance_factor)}

FindingOf(ij) == violations[ij[1]][2][ij[2]]

\* C9: once detection has run, the factor of a numeric finding is a
\* hundredth nearest to result / limit, and of two findings against the
\* same limit the one with the larger result never has the smaller factor.
C9_FactorRoundedAndMonotonic ==
  Detected =>
    /\ \A a \in NumericFindings :
         LET f == FindingOf(a)
             d == f.exceedance_factor.v * f.mcl - f.result.v
         IN  f.mcl > 0 /\ 2 * d <= f.mcl /\ 0 - 2 * d <= f.mcl
    /\ \A a, b \in NumericFindings :
         (FindingOf(a).mcl = FindingOf(b).mcl
            /\ FindingOf(a).result.v <= FindingOf(b).result.v)
           => FindingOf(a).exceedance_factor.v <= FindingOf(b).exceedance_factor.v

\* Two findings against one limit with different results, one of them on a
\* decimal tie (8.1 / 4 = 2.025).
C9_Witness ==
  /\ pc = "detected"
  /\ \E a, b \in NumericFindings :
       /\ FindingOf(a).mcl = 4 /\ FindingOf(b).mcl = 4
       /\ FindingOf(a).result = Float(810) /\ FindingOf(a).exceedance_factor = Float(202)
       /\ FindingOf(b).result = Float(820) /\ FindingOf(b).exceedance_factor = Float(205)

\* C10: once detection has run, every finding of E.coli has the text
\* 'ACUTE' as exceedance factor and the tier 'Tier 1'.
C10_EcoliFindingsAcuteTier1 ==
  Detected =>
    (HasKey(violations, P.Ecoli) =>
       \A j \in 1..Len(Get(violations, P.Ecoli)) :
         /\ Get(violations, P.Ecoli)[j].exceedance_factor = Str(S.ACUTE)
         /\ ~IsFloat(Get(violations, P.Ecoli)[j].exceedance_factor)
         /\ Get(violations, P.Ecoli)[j].tier = "Tier 1")

\* Two E.coli findings have been recorded.
C10_Witness ==
  /\ pc = "detected"
  /\ HasKey(violations, P.Ecoli)
  /\ Len(Get(violations, P.Ecoli)) = 2
  /\ Get(violations, P.Ecoli)[2].exceedance_factor = Str(S.ACUTE)

\* C11: main never ends in an exception, and once detection has run a
\* sample whose parameter the limit table lacks has no finding, its
\* parameter is no key of the findings map, and the findings map holds for
\* every parameter the list that detection yields for the table without
\* that sample.
C11_UnregulatedSampleIgnored ==
  /\ pc # "crashed"
  /\ Detected =>
       \A i \in 1..Len(df.rows) :
         ~HasKey(mcls, df.rows[i].Parameter) =>
           /\ ~HasKey(violations, df.rows[i].Parameter)
           /\ \A k \in 1..Len(violations) : \A j \in 1..Len(violations[k][2]) :
                violations[k][2][j].sample_location # df.rows[i].Sample_Location
           /\ LET r == detect_violations(WithoutRow(df, i)) IN
                r.raised = "none" /\ DictEq(r.violations, violations)

\* A Nitrate sample above any limit of the table sits between samples of
\* regulated parameters that have findings.
C11_Witness ==
  /\ pc = "detected"
  /\ df = Frame(Example.Mixed)
  /\ ~HasKey(violations, P.Nitrate)
  /\ Keys(violations) = {P.Ecoli, P.Lead, P.PFOA}

\* ---------------------------------------------------------------- C12

\* What the lookup of a system can end in without delivering a usable record:
\* the request times out or raises, the service answers with another status
\* than 200 or with an empty list, or the population of the record is
\* neither a number nor a text that int() accepts or replaces.
LookupFailed(reply) ==
  \/ reply.kind \in {"Timeout", "Exception"}
  \/ /\ reply.kind = "response"
     /\ \/ reply.status_code # 200
        \/ reply.data = << >>
        \/ \E i \in 1..Len(reply.data[1]) :
             /\ reply.data[1][i][1] \in {"population_served_count", "POPULATION_SERVED_COUNT"}
             /\ reply.data[1][i][2].kind = "None"

\* C12: when the lookup of the water system fails (timeout, exception, bad
\* status, empty answer, unusable record), the step that ends the lookup
\* leaves a fallback record that carries the requested PWSID and is marked
\* FALLBACK, and the pipeline goes on to validation instead of stopping;
\* the two later stages that read the record (notification, reporting)
\* complete on a fallback record.
C12_LookupFailureYieldsFallback ==
  [][/\ (pc = "requested" /\ LookupFailed(api_reply)) =>
          /\ pc' = "fetched"
          /\ exception' = exception
          /\ water_system_info'.data_source = "FALLBACK"
          /\ water_system_info'.pwsid = df.rows[1].PWSID
          /\ water_system_info' = FallbackInfo(df.rows[1].PWSID)
     /\ (pc = "assessed" /\ water_system_info.data_source = "FALLBACK") =>
          pc' = "notified"
     /\ (pc = "notified" /\ water_system_info.data_source = "FALLBACK") =>
          pc' = "reported"]_vars

\* A run of the file of another system finished on the fallback record.
C12_Witness ==
  /\ pc = "saved"
  /\ water_system_info.data_source = "FALLBACK"
  /\ water_system_info.pwsid = PWSID.Other
  /\ df.rows[1].PWSID = PWSID.Other
  /\ files.compliance_report.water_system_info.data_source = "FALLBACK"

\* ---------------------------------------------------------------- C13

\* What a lookup for the file's system can leave main() with: a record of
\* the service, the fallback record, or no record at all.
LookupOutcomes ==
  {fetch_water_system_info(requested_pwsid, r).info : r \in ApiReplies} \cup {None}

SameButHeader(a, b) == [a EXCEPT !.system_header = b.system_header] = b

\* C13: the findings and the severities are those computed from the samples
\* alone, whatever the lookup delivered; and had the lookup ended in any
\* other way (a record of the service, the fallback, no record), the same
\* parameters would be notified, each with a notice that differs from the
\* one produced at most in the system header.
C13_LookupOutcomeOnlyChangesHeader ==
  Notified =>
    /\ violations = detect_violations(df).violations
    /\ severity = assess_severity(detect_violations(df).violations).severity_assessment
    /\ \A info \in LookupOutcomes :
         LET other == generate_public_notifications(violations, severity, info) IN
           /\ other.raised = "none"
           /\ Len(other.notifications) = Len(notifications)
           /\ \A k \in 1..Len(notifications) :
                /\ other.notifications[k][1] = notifications[k][1]
                /\ SameButHeader(notifications[k][2], other.notifications[k][2])

\* Three notices were produced on the fallback record; with a record of the
\* service the headers would read differently.
C13_Witness ==
  /\ pc = "notified" /\ df = Frame(Example.Mixed)
  /\ water_system_info.data_source = "FALLBACK"
  /\ Len(notifications) = 3
  /\ \E info \in LookupOutcomes :
       /\ info.kind # "None" /\ info.data_source = "EPA_API"
       /\ generate_public_notifications(violations, severity, info).notifications[1][2].system_header
            # notifications[1][2].system_header

\* ---------------------------------------------------------------- C14

\* C14: a second run of detection, assessment, notification and reporting on
\* the same table and the same system record, on whatever day it happens,
\* yields the notices and the federal report of the first run.
C14_RerunYieldsSameOutputs ==
  Reported =>
    \A now \in Dates :
      LET v == detect_violations(df).violations
          s == assess_severity(v).severity_assessment
          n == generate_public_notifications(v, s, water_system_info).notifications
          r == generate_federal_reporting(v, s, water_system_info, now).federal_report
      IN  n = notifications /\ r = federal_report

\* ---------------------------------------------------------------- C15

HasDetail(notice, kind, value) ==
  \E d \in 1..Len(notice.details) :
    notice.details[d].kind = kind /\ notice.details[d].value = value

\* C15: every notice carries the system header, the largest result among
\* the parameter's findings, the regulatory limit, the number of findings,
\* a health-effects statement, a list of actions, and the deadline with its
\* channels.
C15_NoticeIsComplete ==
  Notified =>
    \A k \in 1..Len(notifications) :
      LET parameter      == notifications[k][1]
          notice         == notifications[k][2]
          violation_list == Get(violations, parameter)
      IN  /\ notice.system_header = system_header(water_system_info)
          /\ HasDetail(notice, "max", max_result(violation_list))
          /\ HasDetail(notice, "literal", Get(mcls, parameter) * Scale)
          /\ HasDetail(notice, "count", Len(violation_list))
          /\ notice.health_effects # ""
          /\ notice.actions # << >>
          /\ notice.timeframe # "" /\ notice.media # << >>

\* ---------------------------------------------------------------- C16

\* The tier a notice announces in its title.
TitleTier(title) ==
  IF title = "IMMEDIATE PUBLIC NOTICE - TIER 1 VIOLATION" THEN "Tier 1"
  ELSE IF title = "PUBLIC NOTICE - TIER 2 VIOLATION" THEN "Tier 2"
  ELSE "none"

\* C16: every notice renders the timeframe and the channels of the tier of
\* its parameter's first finding: 24 hours via Public Notice, Direct
\* Contact, Media Alert for Tier 1, 30 days via Public Notice, Newspaper for
\* Tier 2; and the tier in the notice's title is that tier.
C16_NoticeRendersRequirementOfItsTier ==
  Notified =>
    \A k \in 1..Len(notifications) :
      LET notice == notifications[k][2]
          tier   == Get(violations, notifications[k][1])[1].tier
      IN  /\ tier \in {"Tier 1", "Tier 2"}
          /\ tier = "Tier 1" =>
               /\ notice.timeframe = "24 hours"
               /\ notice.media = <<"Public Notice", "Direct Contact", "Media Alert">>
          /\ tier = "Tier 2" =>
               /\ notice.timeframe = "30 days"
               /\ notice.media = <<"Public Notice", "Newspaper">>
          /\ TitleTier(notice.title) = tier

\* A Tier 1 and a Tier 2 notice were produced in one run.
C16_Witness ==
  /\ pc = "notified" /\ df = Frame(Example.Mixed)
  /\ \E k \in 1..Len(notifications) :
       /\ notifications[k][1] = P.Ecoli
       /\ notifications[k][2].timeframe = "24 hours"
  /\ \E k \in 1..Len(notifications) :
       /\ notifications[k][1] = P.Lead
       /\ notifications[k][2].timeframe = "30 days"

\* ---------------------------------------------------------------- C17

\* C17: in the findings map of a run, every finding of a parameter carries
\* the tier the tier table gives that parameter, hence the tier of the
\* parameter's first finding.
C17_FindingsOfParameterShareTier ==
  Detected =>
    \A k \in 1..Len(violations) :
      \A j \in 1..Len(violations[k][2]) :
        /\ HasKey(violation_tiers, violations[k][1])
        /\ violations[k][2][j].tier = Get(violation_tiers, violations[k][1])
        /\ violations[k][2][j].tier = violations[k][2][1].tier

\* Two findings of one parameter, one just above the limit and one far
\* above it, with the same tier.
C17_Witness ==
  /\ pc = "detected"
  /\ \E k \in 1..Len(violations) :
       /\ Len(violations[k][2]) >= 2
       /\ violations[k][2][1].exceedance_factor.kind = "float"
       /\ \E i, j \in 1..Len(violations[k][2]) :
            /\ violations[k][2][i].exceedance_factor.v < 2 * Scale
            /\ violations[k][2][j].exceedance_factor.v >= 2 * Scale
            /\ violations[k][2][i].tier = violations[k][2][j].tier

\* ---------------------------------------------------------------- C18

RECURSIVE FindingsBefore(_, _)
\* The number of findings of the first k - 1 parameters of a findings map.
FindingsBefore(v, k) ==
  IF k <= 1 THEN 0 ELSE FindingsBefore(v, k - 1) + Len(v[k - 1][2])

\* C18: the violations list of the federal report has one entry per finding,
\* in the order of the findings map (parameter by parameter, finding by
\* finding), each with the finding's parameter, tier, location, result,
\* limit and factor and with the severity label of the parameter.
C18_ReportListsEveryFinding ==
  Reported =>
    /\ Len(federal_report.violations) = FindingsBefore(violations, Len(violations) + 1)
    /\ \A k \in 1..Len(violations) : \A j \in 1..Len(violations[k][2]) :
         LET entry   == federal_report.violations[FindingsBefore(violations, k) + j]
             finding == violations[k][2][j]
         IN  /\ entry.parameter = violations[k][1]
             /\ entry.tier = finding.tier
             /\ entry.sample_location = finding.sample_location
             /\ entry.result = finding.result
             /\ entry.mcl_al = finding.mcl
             /\ entry.exceedance_factor = finding.exceedance_factor
             /\ entry.severity = Get(severity, violations[k][1])

\* Six findings of two parameters reported in six entries.
C18_Witness ==
  /\ pc = "reported" /\ df = Frame(Example.Worked)
  /\ Len(federal_report.violations) = 6
  /\ federal_report.violations[4].parameter = P.Lead
  /\ federal_report.violations[5].parameter = P.Copper

\* ---------------------------------------------------------------- C19

InList(x, list) == \E i \in 1..Len(list) : list[i] = x

\* C19: the immediate actions of the federal report contain the four
\* emergency actions (boil-water advisory, repeat samples, notification of
\* the state agency, emergency disinfection) exactly when the findings
\* contain E.coli.
C19_EmergencyActionsIffEcoli ==
  Reported =>
    LET actions == federal_report.immediate_actions_required IN
      /\ HasKey(violations, P.Ecoli) =>
           /\ InList("Issue boil water advisory within 24 hours", actions)
           /\ InList("Collect repeat samples within 24 hours", actions)
           /\ InList("Notify state regulatory agency immediately", actions)
           /\ InList("Implement emergency disinfection protocols", actions)
      /\ ~HasKey(violations, P.Ecoli) =>
           /\ ~InList("Issue boil water advisory within 24 hours", actions)
           /\ ~InList("Collect repeat samples within 24 hours", actions)
           /\ ~InList("Notify state regulatory agency immediately", actions)
           /\ ~InList("Implement emergency disinfection protocols", actions)

\* A report on E.coli and other findings that lists the emergency actions
\* first.
C19_Witness ==
  /\ pc = "reported" /\ df = Frame(Example.Mixed)
  /\ HasKey(violations, P.Ecoli)
  /\ federal_report.immediate_actions_required[1] = "Issue boil water advisory within 24 hours"
  /\ Len(federal_report.immediate_actions_required) = 10

\* ---------------------------------------------------------------- C20

\* C20: whenever there is at least one violation, the long-term actions of
\* the federal report are the same five items, whatever parameters are
\* violated, however many findings there are and whatever their severity.
C20_LongTermActionsFixed ==
  (Reported /\ violations # << >>) =>
    federal_report.long_term_actions =
      <<"Submit corrective action plan within 30 days",
        "Implement enhanced monitoring program",
        "Conduct system-wide evaluation",
        "Submit quarterly compliance reports",
        "Maintain public notification requirements">>

\* A report on a single MODERATE Copper finding with the five items.
C20_Witness ==
  /\ pc = "reported"
  /\ Keys(violations) = {P.Copper}
  /\ Len(violations[1][2]) = 1
  /\ Get(severity, P.Copper).label = "MODERATE"
  /\ Len(federal_report.long_term_actions) = 5

\* ---------------------------------------------------------------- C21

\* The stages of main() in the order of its text; the position reached
\* when a stage has finished.
StageOrder ==
  <<"start", "loaded", "requested", "fetched", "validated", "detected",
    "assessed", "notified", "reported", "saved">>

StageIndex(p) == CHOOSE i \in 1..Len(StageOrder) : StageOrder[i] = p

\* C21: a run is one pass through load, lookup, validation, detection,
\* assessment, notification, reporting and saving: every step either ends
\* the run (an empty table, an exception) or finishes the stage that follows
\* the last finished one, each stage writes its own result and no other
\* stage does, and the files are written only by the step that follows the
\* assembly of the federal report.
C21_SingleLinearPass ==
  [][/\ \/ pc' \in {"returned", "crashed"}
        \/ /\ pc \in {StageOrder[i] : i \in 1..(Len(StageOrder) - 1)}
           /\ pc' = StageOrder[StageIndex(pc) + 1]
     /\ df' # df => pc = "start"
     /\ water_system_info' # water_system_info => pc = "requested"
     /\ validation_results' # validation_results => pc = "fetched"
     /\ violations' # violations => pc = "validated"
     /\ severity' # severity => pc = "detected"
     /\ notifications' # notifications => pc = "assessed"
     /\ federal_report' # federal_report => pc = "notified"
     /\ files' # files =>
          /\ pc = "reported" /\ pc' = "saved"
          /\ federal_report # None
          /\ files'.compliance_report.federal_report = federal_report]_vars

\* A run that went through every stage and saved what the stages produced.
C21_Witness ==
  /\ pc = "saved" /\ df = Frame(Example.Mixed)
  /\ water_system_info # None /\ validation_results # None
  /\ Len(violations) = 3 /\ Len(severity) = 3 /\ Len(notifications) = 3
  /\ files.compliance_report.federal_report = federal_report
  /\ Len(federal_report.violations) = 5

\* ---------------------------------------------------------------- C22

\* C22: no step changes the limit table, the tier table or the
\* notification-requirement table of the analyzer, which stay as
\* constructed; once detection has delivered the findings map no later
\* stage changes it, and once assessment has delivered the severity map no
\* later stage changes it.
C22_TablesAndMapsNotMutated ==
  [][/\ analyzer' = analyzer
     /\ analyzer.mcls = mcls
     /\ analyzer.violation_tiers = violation_tiers
     /\ analyzer.notification_requirements = notification_requirements
     /\ Detected => violations' = violations
     /\ Assessed => severity' = severity]_vars

\* A finished run with findings: the maps in the saved report are the ones
\* detection and assessment delivered.
C22_Witness ==
  /\ pc = "saved" /\ df = Frame(Example.Worked)
  /\ analyzer = EPAComplianceAnalyzer
  /\ violations = detect_violations(df).violations
  /\ Len(violations) = 2
  /\ files.compliance_report.violations = violations
  /\ files.compliance_report.severity_assessment = severity

\* ---------------------------------------------------------------- C23

\* C23: for a table with the single PFOA sample 8.2 (limit 4) the finding's
\* exceedance factor is 2.05, the notice is a Tier 2 notice with the 30-day
\* requirement, and its line 'Exceedance Factor' reads 2.1x (21 tenths).
C23_WorkedPFOAExample ==
  (Notified /\ df = Frame(<< <<P.PFOA, T.t8_2>> >>)) =>
    /\ Keys(violations) = {P.PFOA}
    /\ Len(violations[1][2]) = 1
    /\ violations[1][2][1].exceedance_factor = Float(205)
    /\ violations[1][2][1].tier = "Tier 2"
    /\ TitleTier(notifications[1][2].title) = "Tier 2"
    /\ notifications[1][2].timeframe = "30 days"
    /\ \E d \in 1..Len(notifications[1][2].details) :
         /\ notifications[1][2].details[d].label = "Exceedance Factor"
         /\ notifications[1][2].details[d].value = 21

\* ---------------------------------------------------------------- C28

\* C28: detection never divides by zero, and every finding with a numeric
\* exceedance factor has a limit above 0, a result above the limit and a
\* factor of at least 1.0; E.coli, the one parameter with limit 0, never
\* has a numeric factor.
C28_NoDivisionByZero ==
  /\ exception # "ZeroDivisionError"
  /\ detect_violations(df).raised # "ZeroDivisionError"
  /\ Detected =>
       \A k \in 1..Len(violations) : \A j \in 1..Len(violations[k][2]) :
         LET finding == violations[k][2][j] IN
           IF violations[k][1] = P.Ecoli
           THEN finding.exceedance_factor = Str(S.ACUTE)
           ELSE /\ IsFloat(finding.exceedance_factor)
                /\ finding.mcl > 0
                /\ finding.result.v > finding.mcl * Scale
                /\ finding.exceedance_factor.v >= Scale

\* An E.coli result given as the number 4 yields no finding and no
\* division; the Lead sample of 15.01 is a finding with factor 1.0.
C28_Witness ==
  /\ pc = "detected" /\ df = Frame(Example.EcoliCount)
  /\ Keys(violations) = {P.Lead}
  /\ violations[1][2][1].exceedance_factor = Float(Scale)
  /\ violations[1][2][1].result.v = 1501

\* ---------------------------------------------------------------- C30

Validated ==
  pc \in {"validated", "detected", "assessed", "notified", "reported", "saved"}

\* C30: in the result of the validation, valid is False exactly when at
\* least one issue was recorded (missing required columns, invalid PWSID
\* format); warnings lower the quality score only.
C30_ValidIffNoIssues ==
  Validated =>
    /\ (validation_results.valid = FALSE) <=> (validation_results.issues # << >>)
    /\ validation_results.quality_score =
         100 - (IF \E i \in 1..Len(validation_results.warnings) :
                     validation_results.warnings[i] = "Missing laboratory certification numbers"
                THEN 10 ELSE 0)
             - (IF \E i \in 1..Len(validation_results.warnings) :
                     validation_results.warnings[i] = "Missing collection times"
                THEN 5 ELSE 0)

\* ======================================================================
\* epa-demo/backend/main.py: ConnectionManager and websocket_endpoint.
\* The coroutines run on one event loop: a step is the code between two
\* awaits.

RECURSIVE remove(_, _)
\* list.remove(x): the list without the first occurrence of x
remove(list, x) ==
  IF list = << >> THEN << >>
  ELSE IF Head(list) = x THEN Tail(list)
  ELSE <<Head(list)>> \o remove(Tail(list), x)

Elements(list) == {list[i] : i \in 1..Len(list)}

\* ConnectionManager.disconnect
disconnect(connections, websocket) ==
  IF websocket \in Elements(connections) THEN remove(connections, websocket)
  ELSE connections

RECURSIVE disconnect_all(_, _)
\* for conn in disconnected: self.disconnect(conn)
disconnect_all(connections, disconnected) ==
  IF disconnected = << >> THEN connections
  ELSE disconnect_all(disconnect(connections, Head(disconnected)), Tail(disconnected))

\* The clients that stayed in active_connections since a running broadcast
\* began, after the list has become next_connections.
Stayed(next_connections) ==
  [b \in Broadcasts |->
     IF broadcast_task[b].pc = "loop"
     THEN [broadcast_task[b] EXCEPT !.stayed = @ \cap Elements(next_connections)]
     ELSE broadcast_task[b]]

\* websocket_endpoint: await manager.connect(websocket), up to
\* await websocket.accept()
WsAccept(c) ==
  /\ ws_state[c] = "new"
  /\ ws_state' = [ws_state EXCEPT ![c] = "accepting"]
  /\ UNCHANGED <<active_connections, broadcast_task, outside_manager>>

\* connect after the accept: self.active_connections.append(websocket);
\* the endpoint then waits in receive_text()
WsConnected(c) ==
  /\ ws_state[c] = "accepting"
  /\ active_connections' = Append(active_connections, c)
  /\ ws_state' = [ws_state EXCEPT ![c] = "open"]
  /\ broadcast_task' = Stayed(active_connections')
  /\ UNCHANGED outside_manager

\* The client goes away; the server has not noticed yet.
ClientLeaves(c) ==
  /\ ws_state[c] = "open"
  /\ ws_state' = [ws_state EXCEPT ![c] = "dropped"]
  /\ UNCHANGED <<active_connections, broadcast_task, outside_manager>>

\* except WebSocketDisconnect: manager.disconnect(websocket)
WsDisconnect(c) ==
  /\ ws_state[c] = "dropped"
  /\ active_connections' = disconnect(active_connections, c)
  /\ ws_state' = [ws_state EXCEPT ![c] = "closed"]
  /\ broadcast_task' = Stayed(active_connections')
  /\ UNCHANGED outside_manager

\* broadcast: if self.active_connections: ... the for loop is entered
BroadcastStart(b) ==
  /\ broadcast_task[b].pc = "idle"
  /\ broadcast_task' =
       [broadcast_task EXCEPT ![b] =
          IF active_connections = << >>
          THEN [@ EXCEPT !.pc = "done"]
          ELSE [@ EXCEPT !.pc = "loop", !.stayed = Elements(active_connections)]]
  /\ UNCHANGED <<active_connections, ws_state, outside_manager>>

\* One turn of `for connection in self.active_connections`: the list
\* iterator delivers the element at its index and advances, and
\* await connection.send_text(message_str) delivers or raises.
BroadcastSend(b) ==
  /\ broadcast_task[b].pc = "loop"
  /\ broadcast_task[b].index < Len(active_connections)
  /\ LET connection == active_connections[broadcast_task[b].index + 1] IN
       broadcast_task' =
         [broadcast_task EXCEPT ![b] =
            IF ws_state[connection] = "open"
            THEN [@ EXCEPT !.index = @ + 1, !.sent = @ \cup {connection}]
            ELSE [@ EXCEPT !.index = @ + 1,
                           !.disconnected = Append(@, connection)]]
  /\ UNCHANGED <<active_connections, ws_state, outside_manager>>

\* The iterator is exhausted; for conn in disconnected: self.disconnect(conn)
BroadcastFinish(b) ==
  /\ broadcast_task[b].pc = "loop"
  /\ broadcast_task[b].index >= Len(active_connections)
  /\ active_connections' =
       disconnect_all(active_connections, broadcast_task[b].disconnected)
  /\ broadcast_task' =
       [Stayed(active_connections') EXCEPT ![b] = [broadcast_task[b] EXCEPT !.pc = "done"]]
  /\ UNCHANGED <<ws_state, outside_manager>>

NextManager ==
  \/ \E c \in Clients : WsAccept(c)
  \/ \E c \in Clients : WsConnected(c)
  \/ \E c \in Clients : ClientLeaves(c)
  \/ \E c \in Clients : WsDisconnect(c)
  \/ \E b \in Broadcasts : BroadcastStart(b)
  \/ \E b \in Broadcasts : BroadcastSend(b)
  \/ \E b \in Broadcasts : BroadcastFinish(b)

SpecManager == Init /\ [][NextManager]_vars

\* ---------------------------------------------------------------- C24

\* C24: when a broadcast has finished, send_text was called for every
\* client that was in active_connections from the start of the broadcast to
\* its end, whatever other coroutines connected or disconnected meanwhile.
C24_BroadcastReachesAllConnected ==
  \A b \in Broadcasts :
    broadcast_task[b].pc = "done" =>
      broadcast_task[b].stayed \subseteq
        (broadcast_task[b].sent \cup Elements(broadcast_task[b].disconnected))

\* ======================================================================
\* epa-demo/backend/main.py: RealViolationDataLoader, and RealViolationData
\* of intelligent_agentic_system.py, which it falls back to.

\* d.get(k, default)
GetDefault(d, k, default) == IF HasKey(d, k) THEN Get(d, k) ELSE default

\* EPA contaminant codes of the cached records: four of the codes the
\* loader knows, and one it does not.
ContaminantCodes == {"5000", "1040", "PB90", "2950", "7777"}

\* A record of the EPA violations file.
SdwisViolation(contaminant_code) ==
  << <<"violation_code", "22">>, <<"contaminant_code", contaminant_code>>,
     <<"compl_per_begin_date", "2023-01-01">> >>

\* A record without its contaminant code.
SdwisViolationBare == << <<"violation_code", "22">> >>

\* A list of twelve records, more than the conversion takes.
TwelveViolations ==
  [i \in 1..12 |-> SdwisViolation(IF i % 2 = 1 THEN "PB90" ELSE "5000")]

\* The entries of a system in the file: without the key sdwis_violations,
\* with an empty list, with one record, with twelve.
CacheEntries ==
  { << >>, << <<"sdwis_violations", << >> >> >>,
    << <<"sdwis_violations", <<SdwisViolationBare>> >> >>,
    << <<"sdwis_violations", TwelveViolations>> >> }
  \cup { << <<"sdwis_violations", <<SdwisViolation(c)>> >> >> : c \in ContaminantCodes }

\* What _load_real_violations leaves in real_violations_cache: {} when the
\* file is missing or unreadable, otherwise the file's dict.
LoadedCaches ==
  { << >> } \cup
  { << <<p, entry>> >> : p \in {PWSID.Clinton, PWSID.Other}, entry \in CacheEntries }

\* _map_contaminant_code: the name, or "Contaminant <code>"
map_contaminant_code(code) ==
  CASE code = "PB90" -> <<"Lead">>
    [] code = "0300" -> <<"Chlorine">>
    [] code = "0800" -> <<"Total Trihalomethanes">>
    [] code = "1040" -> <<"Nitrate">>
    [] code = "2950" -> <<"Copper">>
    [] code = "2456" -> <<"Arsenic">>
    [] code = "5000" -> <<"Total Coliform">>
    [] code = "0700" -> <<"Benzene">>
    [] code = "3100" -> <<"Radium">>
    [] code = "8000" -> <<"Turbidity">>
    [] OTHER -> <<"Contaminant", code>>

\* _determine_tier
determine_tier(contaminant_code, violation_code) ==
  IF contaminant_code \in {"5000", "1040"} THEN "Tier 1" ELSE "Tier 2"

\* _determine_severity
determine_severity(contaminant_code, violation_code) ==
  IF contaminant_code \in {"PB90", "5000", "1040", "2456"} THEN "CRITICAL" ELSE "HIGH"

\* real_violations[:10]
FirstTen(real_violations) ==
  SubSeq(real_violations, 1, IF Len(real_violations) < 10 THEN Len(real_violations) ELSE 10)

\* the standardized record built for one EPA record
converted_violation(violation) ==
  LET viol_code        == GetDefault(violation, "violation_code", "Unknown")
      contaminant_code == GetDefault(violation, "contaminant_code", "Unknown")
      compl_date       == GetDefault(violation, "compl_per_begin_date", "Unknown")
  IN  [parameter |-> map_contaminant_code(contaminant_code),
       result |-> "EPA Violation Detected",
       mcl |-> "See EPA Standards",
       violation_type |-> <<"EPA Violation Code", viol_code>>,
       tier |-> determine_tier(contaminant_code, viol_code),
       severity |-> determine_severity(contaminant_code, viol_code),
       sample_location |-> "Multiple Locations",
       health_risk |-> map_contaminant_code(contaminant_code),
       violation_date |-> compl_date,
       epa_violation_code |-> viol_code,
       epa_contaminant_code |-> contaminant_code,
       data_source |-> "Real EPA SDWIS"]

\* _convert_real_violations
convert_real_violations(real_violations, pwsid) ==
  LET taken == FirstTen(real_violations) IN
    [i \in 1..Len(taken) |-> converted_violation(taken[i])]

\* ---- RealViolationData (intelligent_agentic_system.py)

\* A row of csv.DictReader: every value is the text of its cell.
LabRow(parameter, result, mcl) ==
  << <<"Parameter", parameter>>, <<"Result", result>>, <<"MCL", mcl>>,
     <<"Sample_Location", S.Well>> >>

\* A row of a file without the column MCL.
LabRowNoMCL(parameter, result) ==
  << <<"Parameter", parameter>>, <<"Result", result>>, <<"Sample_Location", S.Well>> >>

\* The rows the fallback file is drawn from: E.coli as Present, Absent and
\* as a count (against the MCL 0 and against a nonzero MCL), values above,
\* at and without a number for Lead, PFOA and Copper above their limits,
\* and a row of a file without MCL column.
LabKinds ==
  { LabRow(P.Ecoli, S.Present, T.t0), LabRow(P.Ecoli, S.Absent, T.t0),
    LabRow(P.Ecoli, T.t2, T.t1), LabRow(P.Ecoli, T.t4, T.t0),
    LabRow(P.Lead, T.t18_2, T.t15), LabRow(P.Lead, T.t15, T.t15),
    LabRow(P.Lead, S.ND, T.t15), LabRow(P.PFOA, T.t8_2, T.t4),
    LabRow(P.Copper, T.t1400, T.t1300), LabRowNoMCL(P.Lead, T.t18_2) }

MaxLabRows == 2

\* load_lab_results: the rows of the CSV file, [] when it cannot be read
LabFiles == UNION {[1..n -> LabKinds] : n \in 0..MaxLabRows}

\* What analyze_violations does with one row: nothing, a record appended,
\* or an exception that its except clause does not catch.  The limits of
\* the rows drawn are whole numbers.
analyze_row(row) ==
  LET parameter == GetDefault(row, "Parameter", << >>)
      result    == GetDefault(row, "Result", << >>)
      mcl_str   == GetDefault(row, "MCL", T.t0)
      location  == GetDefault(row, "Sample_Location", "Unknown")
  IN
  IF parameter = P.Ecoli /\ result = S.Present
  THEN [kind |-> "append", raised |-> "none",
        violation |->
          [parameter |-> P.Ecoli, result |-> Str(S.Present),
           mcl |-> Str(<<"0", " ", "(", "N", "o", "t", " ", "A", "l", "l", "o", "w", "e", "d", ")">>),
           exceedance_factor |-> None,
           violation_type |-> "Acute MCL Violation",
           tier |-> "Tier 1", severity |-> "CRITICAL",
           sample_location |-> location,
           health_risk |-> "Immediate public health risk"]]
  ELSE IF result # S.Present
  THEN LET result_value == float(Str(result))
           mcl_value    == float(Str(mcl_str))
       IN
       IF ~result_value.ok \/ ~mcl_value.ok
       THEN [kind |-> "skip", raised |-> "none"]          \* except (ValueError, TypeError)
       ELSE IF result_value.val.nan \/ mcl_value.val.nan
               \/ ~(result_value.val.v > mcl_value.val.v)
       THEN [kind |-> "skip", raised |-> "none"]
       ELSE IF mcl_value.val.v = 0
       THEN [kind |-> "raise", raised |-> "ZeroDivisionError"]
       ELSE [kind |-> "append", raised |-> "none",
             violation |->
               [parameter |-> parameter, result |-> result_value.val,
                mcl |-> mcl_value.val,
                exceedance_factor |->
                  [kind |-> "value",
                   value |-> Float(Round2(result_value.val.v, mcl_value.val.v \div Scale))],
                violation_type |-> "MCL/Action Level Exceedance",
                tier |-> IF parameter # P.Ecoli THEN "Tier 2" ELSE "Tier 1",
                severity |-> IF parameter \in {P.Lead, P.Copper} THEN "CRITICAL" ELSE "HIGH",
                sample_location |-> location,
                health_risk |-> "health concern"]]
  ELSE [kind |-> "skip", raised |-> "none"]

RECURSIVE analyze_violations(_)
\* RealViolationData.analyze_violations  -> [raised, violations]
analyze_violations(lab_data) ==
  IF lab_data = << >> THEN [raised |-> "none", violations |-> << >>]
  ELSE LET o == analyze_row(Head(lab_data)) IN
       IF o.kind = "raise" THEN [raised |-> o.raised, violations |-> << >>]
       ELSE LET rest == analyze_violations(Tail(lab_data)) IN
            [raised |-> rest.raised,
             violations |-> IF o.kind = "append" THEN <<o.violation>> \o rest.violations
                            ELSE rest.violations]

\* every system given the CSV data
FallbackForAnySystem(pwsid) == TRUE

\* if pwsid == "OH7700001":
IsFallbackSystem(pwsid) == pwsid = PWSID.Clinton

\* RealViolationDataLoader.get_violations_for_system  -> [raised, result];
\* lab_data is what load_lab_results reads when the fallback is taken.
get_violations_for_system(real_violations_cache, pwsid, lab_data) ==
  LET real_violations ==
        IF real_violations_cache # << >> /\ HasKey(real_violations_cache, pwsid)
        THEN GetDefault(Get(real_violations_cache, pwsid), "sdwis_violations", << >>)
        ELSE << >>
  IN  IF real_violations # << >>
      THEN [raised |-> "none", result |-> convert_real_violations(real_violations, pwsid)]
      ELSE IF IsFallbackSystem(pwsid)
      THEN LET r == analyze_violations(lab_data) IN
             [raised |-> r.raised, result |-> r.violations]
      ELSE [raised |-> "none", result |-> << >>]

\* real_violation_loader = RealViolationDataLoader(): _load_real_violations
LoaderInit ==
  /\ loader.pc = "new"
  /\ \E cache \in LoadedCaches :
       loader' = [loader EXCEPT !.pc = "ready", !.real_violations_cache = cache]
  /\ UNCHANGED outside_loader

\* A call real_violation_loader.get_violations_for_system(pwsid)
GetViolationsForSystem ==
  /\ loader.pc = "ready"
  /\ \E pwsid \in {PWSID.Clinton, PWSID.Other, PWSID.Unknown}, lab_data \in LabFiles :
       LET r == get_violations_for_system(loader.real_violations_cache, pwsid, lab_data) IN
         loader' = [loader EXCEPT !.pc = IF r.raised = "none" THEN "returned" ELSE "raised",
                                  !.pwsid = pwsid, !.lab_data = lab_data,
                                  !.result = r.result, !.raised = r.raised]
  /\ UNCHANGED outside_loader

NextLoader == LoaderInit \/ GetViolationsForSystem

SpecLoader == Init /\ [][NextLoader]_vars

\* ---------------------------------------------------------------- C25

\* The list the file holds for a system ([] when it holds none).
CachedViolations(cache, pwsid) ==
  IF \E i \in 1..Len(cache) : cache[i][1] = pwsid
  THEN LET entry == cache[CHOOSE i \in 1..Len(cache) : cache[i][1] = pwsid][2] IN
         IF \E j \in 1..Len(entry) : entry[j][1] = "sdwis_violations"
         THEN entry[CHOOSE j \in 1..Len(entry) : entry[j][1] = "sdwis_violations"][2]
         ELSE << >>
  ELSE << >>

\* C25: a call of get_violations_for_system returns, for a system with a
\* non-empty list in the violations file, one converted record for each of
\* the first ten records of that list and no more; otherwise, for
\* OH7700001, records of the laboratory file, none from the EPA file; and
\* for any other system the empty list; it raises for no system other than
\* OH7700001 read from the laboratory file.
C25_LoaderPrecedence ==
  LET cached == CachedViolations(loader.real_violations_cache, loader.pwsid) IN
  /\ loader.pc = "returned" =>
       IF cached # << >>
       THEN /\ Len(loader.result) = (IF Len(cached) <= 10 THEN Len(cached) ELSE 10)
            /\ \A i \in 1..Len(loader.result) :
                 /\ loader.result[i].data_source = "Real EPA SDWIS"
                 /\ \/ <<"contaminant_code", loader.result[i].epa_contaminant_code>>
                         \in Elements(cached[i])
                    \/ /\ loader.result[i].epa_contaminant_code = "Unknown"
                       /\ ~HasKey(cached[i], "contaminant_code")
       ELSE IF loader.pwsid = PWSID.Clinton
       THEN /\ Len(loader.result) <= Len(loader.lab_data)
            /\ \A i \in 1..Len(loader.result) :
                 /\ loader.result[i].violation_type
                      \in {"Acute MCL Violation", "MCL/Action Level Exceedance"}
                 /\ \E k \in 1..Len(loader.lab_data) :
                      <<"Parameter", loader.result[i].parameter>>
                        \in Elements(loader.lab_data[k])
       ELSE loader.result = << >>
  /\ loader.pc = "raised" => (cached = << >> /\ loader.pwsid = PWSID.Clinton)

\* A system with twelve records in the file got ten converted records.
C25_Witness ==
  /\ loader.pc = "returned"
  /\ Len(CachedViolations(loader.real_violations_cache, loader.pwsid)) = 12
  /\ Len(loader.result) = 10
  /\ loader.result[10].epa_contaminant_code = "5000"

\* ---------------------------------------------------------------- C29

\* C29: every record that get_violations_for_system returns with tier
\* Tier 1 has severity CRITICAL.
C29_Tier1IsCritical ==
  loader.pc = "returned" =>
    \A i \in 1..Len(loader.result) :
      loader.result[i].tier = "Tier 1" => loader.result[i].severity = "CRITICAL"

\* ======================================================================
\* production_agentic_system.py: ProductionAgenticEPASystem

\* What analyze_violations does with one sample: "none", or the exception
\* of sample['Parameter'], sample['Result'], float(sample['MCL']), none of
\* which is inside its try block.
sample_raises(sample) ==
  IF ~HasKey(sample, "Parameter") \/ ~HasKey(sample, "Result") \/ ~HasKey(sample, "MCL")
  THEN "KeyError"
  ELSE IF ~float(Str(Get(sample, "MCL"))).ok THEN "ValueError"
  ELSE "none"

\* ProductionAgenticEPASystem.analyze_violations: the exception it ends
\* with, "none" when it returns (its result is not used by the caller).
workflow_analyze_violations(lab_data) ==
  IF \E i \in 1..Len(lab_data) : sample_raises(lab_data[i]) # "none"
  THEN sample_raises(lab_data[CHOOSE i \in 1..Len(lab_data) :
                                 /\ sample_raises(lab_data[i]) # "none"
                                 /\ \A j \in 1..(i - 1) : sample_raises(lab_data[j]) = "none"])
  ELSE "none"

\* Reading a configuration or data file succeeds or raises.
FileOutcomes == {"none", "OSError"}

\* log_execution_step: the entry appended (agent and status of the step)
log_execution_step(execution_log, agent_name, status) ==
  Append(execution_log, [agent |-> agent_name, status |-> status])

\* an exception of a stage left to propagate
StageErrorPropagates(w, e) == [w EXCEPT !.pc = "raised"]

\* except Exception as e: log the error, return {"error": error_msg}
OnStageError(w, e) ==
  [w EXCEPT !.pc = "returned",
            !.execution_log = log_execution_step(@, "System Error", "ERROR"),
            !.returned = << <<"error", e>> >>]

\* A stage that ended normally: its log entry, its result, the next stage.
StageDone(w, agent_name, key, next) ==
  [w EXCEPT !.pc = next,
            !.execution_log = log_execution_step(@, agent_name, "SUCCESS"),
            !.agent_results = IF HasKey(@, key) THEN @ ELSE Append(@, <<key, agent_name>>)]

\* execute_complete_agentic_workflow, step 1: execute_orchestrator_agent
\* (reads its configuration and the laboratory file)
ExecuteOrchestratorAgent ==
  /\ workflow.pc = "new"
  /\ \E lab_data \in LabFiles, e \in FileOutcomes :
       workflow' =
         IF e # "none" THEN OnStageError(workflow, e)
         ELSE StageDone([workflow EXCEPT !.lab_data = lab_data],
                        "EPA Compliance Orchestrator", "orchestrator", "validator")
  /\ UNCHANGED outside_workflow

\* step 2: execute_data_validator_agent
ExecuteDataValidatorAgent ==
  /\ workflow.pc = "validator"
  /\ \E e \in FileOutcomes :
       workflow' =
         IF e # "none" THEN OnStageError(workflow, e)
         ELSE StageDone(workflow, "EPA Data Validator", "validator", "detector")
  /\ UNCHANGED outside_workflow

\* step 3: execute_violation_detector_agent, which calls analyze_violations
ExecuteViolationDetectorAgent ==
  /\ workflow.pc = "detector"
  /\ \E e \in FileOutcomes :
       workflow' =
         IF e # "none" THEN OnStageError(workflow, e)
         ELSE IF workflow_analyze_violations(workflow.lab_data) # "none"
         THEN OnStageError(workflow, workflow_analyze_violations(workflow.lab_data))
         ELSE StageDone(workflow, "EPA Violation Detector", "detector", "generator")
  /\ UNCHANGED outside_workflow

\* step 4: execute_notification_generator_agent
ExecuteNotificationGeneratorAgent ==
  /\ workflow.pc = "generator"
  /\ \E e \in FileOutcomes :
       workflow' =
         IF e # "none" THEN OnStageError(workflow, e)
         ELSE StageDone(workflow, "EPA Notification Generator", "generator", "synthesis")
  /\ UNCHANGED outside_workflow

\* step 5: synthesize_final_report (reads no file)
SynthesizeFinalReport ==
  /\ workflow.pc = "synthesis"
  /\ workflow' = StageDone(workflow, "Final Synthesis", "synthesis", "save")
  /\ UNCHANGED outside_workflow

\* self.save_results(); return self.agent_results.  Writing the results
\* file or the summary file can raise, which the same handler catches.
WorkflowSaveResults ==
  /\ workflow.pc = "save"
  /\ \E e \in FileOutcomes, written \in {<< >>, <<"production_agentic_results.json">>} :
       workflow' =
         IF e # "none"
         THEN OnStageError([workflow EXCEPT !.saved = written], e)
         ELSE [workflow EXCEPT
                 !.pc = "returned",
                 !.saved = <<"production_agentic_results.json",
                             "production_agentic_summary.txt">>,
                 !.returned = workflow.agent_results]
  /\ UNCHANGED outside_workflow

NextWorkflow ==
  \/ ExecuteOrchestratorAgent
  \/ ExecuteDataValidatorAgent
  \/ ExecuteViolationDetectorAgent
  \/ ExecuteNotificationGeneratorAgent
  \/ SynthesizeFinalReport
  \/ WorkflowSaveResults

SpecWorkflow == Init /\ [][NextWorkflow]_vars

\* ---------------------------------------------------------------- C26

FiveStages ==
  <<"EPA Compliance Orchestrator", "EPA Data Validator", "EPA Violation Detector",
    "EPA Notification Generator", "Final Synthesis">>

\* The SUCCESS entries at the head of a log.
Successes(log) ==
  IF \E i \in 1..Len(log) : log[i].status # "SUCCESS"
  THEN SubSeq(log, 1, (CHOOSE i \in 1..Len(log) :
                         /\ log[i].status # "SUCCESS"
                         /\ \A j \in 1..(i - 1) : log[j].status = "SUCCESS") - 1)
  ELSE log

\* C26: the log of a workflow call is, at every moment, the SUCCESS entries
\* of the first stages in the order orchestrator, validator, detector,
\* generator, synthesis, each once, followed by at most one ERROR entry;
\* a call that returns its agent results has logged exactly the five
\* SUCCESS entries and saved both files; nothing is saved before synthesis
\* has succeeded; and a call in which a step raised returns a dict with the
\* single key error after logging the ERROR entry, the exception not
\* leaving the method.
C26_WorkflowOrderAndErrorHandling ==
  LET log == workflow.execution_log
      ok  == Successes(log)
  IN  /\ Len(ok) <= 5
      /\ \A i \in 1..Len(ok) : ok[i].agent = FiveStages[i]
      /\ Len(log) <= Len(ok) + 1
      /\ workflow.pc # "raised"
      /\ workflow.saved # << >> => Len(ok) = 5
      /\ (workflow.pc = "returned" /\ Len(log) = Len(ok)) =>
           /\ Len(log) = 5
           /\ Len(workflow.saved) = 2
           /\ workflow.returned = workflow.agent_results
           /\ Keys(workflow.returned) =
                {"orchestrator", "validator", "detector", "generator", "synthesis"}
      /\ Len(log) > Len(ok) =>
           /\ workflow.pc = "returned"
           /\ log[Len(log)].status = "ERROR"
           /\ Keys(workflow.returned) = {"error"}
           /\ Len(ok) < 5 => workflow.saved = << >>
      /\ (workflow.pc = "returned") <=>
           (workflow.returned # << >>)

\* A call that completed, and the shape of a call whose detector raised.
C26_Witness ==
  /\ workflow.pc = "returned"
  /\ Len(workflow.execution_log) = 5
  /\ workflow.execution_log[5] = [agent |-> "Final Synthesis", status |-> "SUCCESS"]
  /\ Len(workflow.saved) = 2
  /\ Len(workflow.lab_data) = 2

\* ======================================================================
\* epa-demo/backend/main.py: analyze_question and run_analysis_with_updates

\* A message handed to manager.broadcast: its type, and for an agent
\* update its agent and status.
Event(type, agent, status) == [type |-> type, agent |-> agent, status |-> status]

\* the agents of the analysis loop, in the order of the loop
AnalysisAgents ==
  <<"data-validator", "violation-analyst", "notification-specialist",
    "remediation-specialist">>

\* What a step that calls other code ends with.
StepOutcomes == {"none", "Exception"}

\* the handler of analyze_question announcing completion after the error
OnAnalysisErrorThenComplete(a, e) ==
  [a EXCEPT !.pc = "http_500", !.raised = e,
            !.events = @ \o <<Event("error", "", ""), Event("analysis_complete", "", "")>>]

\* analyze_question: except Exception: broadcast error; raise HTTPException(500)
OnAnalysisError(a, e) ==
  [a EXCEPT !.pc = "http_500", !.raised = e,
            !.events = Append(@, Event("error", "", ""))]

\* run_analysis_with_updates: except Exception: broadcast error; raise,
\* which the handler of analyze_question then catches
OnRunAnalysisError(a, e) ==
  OnAnalysisError([a EXCEPT !.events = Append(@, Event("error", "", ""))], e)

\* analyze_question up to the call of parse_intent
AnalysisStart ==
  /\ analysis.pc = "new"
  /\ analysis' = [analysis EXCEPT
                    !.pc = "parse_intent",
                    !.events = <<Event("analysis_start", "", ""),
                                 Event("status", "", "intent_parsing")>>]
  /\ UNCHANGED outside_analysis

\* intent_result = await nlp_processor.parse_intent(...); the two
\* broadcasts that follow; pwsid = intent_result.pwsid or "OH7700001"
ParseIntent ==
  /\ analysis.pc = "parse_intent"
  /\ \E e \in StepOutcomes, intent_pwsid \in {<< >>, PWSID.Clinton, PWSID.Other, PWSID.Unknown} :
       analysis' =
         IF e # "none" THEN OnAnalysisError(analysis, e)
         ELSE [analysis EXCEPT
                 !.pc = "epa_data",
                 !.pwsid = IF intent_pwsid # << >> THEN intent_pwsid ELSE PWSID.Clinton,
                 !.events = @ \o <<Event("intent_parsed", "", ""),
                                    Event("status", "", "agent_analysis")>>]
  /\ UNCHANGED outside_analysis

\* run_analysis_with_updates, step 1: get_water_system_info catches every
\* exception itself
EpaDataStep ==
  /\ analysis.pc = "epa_data"
  /\ analysis' = [analysis EXCEPT
                    !.pc = "violation_data",
                    !.events = @ \o <<Event("agent_update", "epa_data", "running"),
                                       Event("agent_update", "epa_data", "complete")>>]
  /\ UNCHANGED outside_analysis

\* step 2: violations = real_violation_loader.get_violations_for_system(pwsid)
ViolationDataStep ==
  /\ analysis.pc = "violation_data"
  /\ \E cache \in LoadedCaches, lab_data \in LabFiles :
       LET r       == get_violations_for_system(cache, analysis.pwsid, lab_data)
           running == [analysis EXCEPT
                         !.events = Append(@, Event("agent_update", "violation_data", "running"))]
       IN  analysis' =
             IF r.raised # "none" THEN OnRunAnalysisError(running, r.raised)
             ELSE [running EXCEPT
                     !.pc = "agents", !.agent = 1, !.violations = r.result,
                     !.events = Append(@, Event("agent_update", "violation_data", "complete"))]
  /\ UNCHANGED outside_analysis

\* The updates of one turn of the agent loop before think_about: two
\* "thinking" updates, and for the remediation specialist with violations
\* the search update and the update after the search (found or failed).
ThinkingUpdates(agent_name, found) ==
  <<Event("agent_update", agent_name, "thinking"),
    Event("agent_update", agent_name, "thinking")>>
  \o (IF agent_name = "remediation-specialist" /\ found # << >>
      THEN <<Event("agent_update", agent_name, "thinking"),
             Event("agent_update", agent_name, "thinking")>>
      ELSE << >>)

\* step 3, one turn of the loop: think_about returns or raises
AgentStep ==
  /\ analysis.pc = "agents"
  /\ \E e \in StepOutcomes :
       LET agent_name == AnalysisAgents[analysis.agent]
           thinking   == [analysis EXCEPT
                            !.events = @ \o ThinkingUpdates(agent_name, analysis.violations)]
       IN  analysis' =
             IF e # "none" THEN OnRunAnalysisError(thinking, e)
             ELSE [thinking EXCEPT
                     !.events = Append(@, Event("agent_update", agent_name, "complete")),
                     !.agent = IF analysis.agent < Len(AnalysisAgents) THEN @ + 1 ELSE @,
                     !.pc = IF analysis.agent < Len(AnalysisAgents) THEN "agents"
                            ELSE "summary"]
  /\ UNCHANGED outside_analysis

\* the return of run_analysis_with_updates: create_summary returns or raises
SummaryStep ==
  /\ analysis.pc = "summary"
  /\ \E e \in StepOutcomes :
       analysis' = IF e # "none" THEN OnRunAnalysisError(analysis, e)
                   ELSE [analysis EXCEPT !.pc = "respond"]
  /\ UNCHANGED outside_analysis

\* generate_natural_response, the broadcast of analysis_complete, return
CompleteStep ==
  /\ analysis.pc = "respond"
  /\ \E e \in StepOutcomes :
       analysis' = IF e # "none" THEN OnAnalysisError(analysis, e)
                   ELSE [analysis EXCEPT
                           !.pc = "returned",
                           !.events = Append(@, Event("analysis_complete", "", ""))]
  /\ UNCHANGED outside_analysis

NextAnalysis ==
  \/ AnalysisStart
  \/ ParseIntent
  \/ EpaDataStep
  \/ ViolationDataStep
  \/ AgentStep
  \/ SummaryStep
  \/ CompleteStep

SpecAnalysis == Init /\ [][NextAnalysis]_vars

\* ---------------------------------------------------------------- C27

\* The positions of the events of a type (and, for agent updates, of an
\* agent and a status) in the events of the request.
Positions(type) == {i \in 1..Len(analysis.events) : analysis.events[i].type = type}

CompletePositions(agent_name) ==
  {i \in 1..Len(analysis.events) :
     analysis.events[i] = [type |-> "agent_update", agent |-> agent_name,
                           status |-> "complete"]}

\* C27: in the events one request broadcasts, analysis_start is the first
\* event and occurs once; intent_parsed follows it and precedes every agent
\* update; analysis_complete occurs at most once, as the last event, after
\* the complete updates of data-validator, violation-analyst,
\* notification-specialist and remediation-specialist in that order; a
\* request in which a step raised has broadcast an error event and no
\* analysis_complete.
C27_AnalysisEventsOrdered ==
  LET ev == analysis.events IN
  /\ ev # << >> => (ev[1].type = "analysis_start" /\ Positions("analysis_start") = {1})
  /\ \A i \in Positions("agent_update") : \E j \in Positions("intent_parsed") : j < i
  /\ \A j \in Positions("intent_parsed") : j > 1
  /\ \A i \in Positions("analysis_complete") :
       /\ i = Len(ev)
       /\ analysis.pc = "returned"
       /\ \E a, b, c, d \in 1..Len(ev) :
            /\ a < b /\ b < c /\ c < d /\ d < i
            /\ CompletePositions("data-validator") = {a}
            /\ CompletePositions("violation-analyst") = {b}
            /\ CompletePositions("notification-specialist") = {c}
            /\ CompletePositions("remediation-specialist") = {d}
  /\ analysis.pc = "returned" => Positions("analysis_complete") # {}
  /\ analysis.raised # "none" =>
       /\ Positions("error") # {}
       /\ Positions("analysis_complete") = {}
  /\ Positions("error") # {} => analysis.raised # "none"

\* A request for a system with violations that completed.
C27_Witness ==
  /\ analysis.pc = "returned"
  /\ analysis.violations # << >>
  /\ analysis.events[Len(analysis.events)].type = "analysis_complete"
  /\ Len(analysis.events) = 8 + 3 * 4 + 2 + 1

====
